---- MODULE Spec2Model ----
(***************************************************************************)
(* A model of bfg9000's toolchain layer: the option-to-flag translators of *)
(* the cc, msvc and jvm families, package resolution (mopack usage,        *)
(* pkg-config, path search) and builder selection.                         *)
(***************************************************************************)
EXTENDS Integers, Sequences, FiniteSets, TLC

VARIABLES
    pc,         \* "idle" before a call, "done" once the call has ended
    tool,       \* the translator, resolver or selector that was called
    env,        \* the environment (platform, builder, subprocess outcomes)
    options,    \* the option list handed to flags()
    output,     \* the output argument of flags()
    mode,       \* the mode argument of flags()
    result,     \* what the call returned or raised
    request,    \* the arguments of a package-resolution call
    calls,      \* the subprocess queries and searches the call made, in order
    cache       \* the memoized results of a package object's queries

vars ==
    <<pc, tool, env, options, output, mode, result, request, calls, cache>>

(***************************************************************************)
(* Small sequence helpers.                                                 *)
(***************************************************************************)
RECURSIVE JoinStr(_, _)
JoinStr(strs, sep) ==
    IF strs = <<>> THEN ""
    ELSE IF Len(strs) = 1 THEN strs[1]
    ELSE strs[1] \o sep \o JoinStr(Tail(strs), sep)

Contains(seq, x) == \E k \in 1..Len(seq) : seq[k] = x

SeqsUpTo(S, n) == UNION {[1..k -> S] : k \in 0..n}

\* iterutils.uniques: the elements in first-seen order, each once.
RECURSIVE uniques(_)
uniques(seq) ==
    IF seq = <<>> THEN <<>>
    ELSE LET init == uniques(SubSeq(seq, 1, Len(seq) - 1))
             last == seq[Len(seq)]
         IN IF Contains(init, last) THEN init ELSE Append(init, last)

(***************************************************************************)
(* Paths: a root and a normalized suffix, kept as its components.          *)
(***************************************************************************)
Path(root, suffix) == [root |-> root, suffix |-> suffix]

NoPath == Path("none", <<>>)

RootNames == {"srcdir", "builddir", "absolute"}
InstallRootNames == {"prefix", "exec_prefix", "bindir", "libdir", "includedir"}

\* BasePath.parent
parent(p) == Path(p.root, SubSeq(p.suffix, 1, Len(p.suffix) - 1))

\* posixpath.relpath on normalized component lists
RECURSIVE PosixRelpath(_, _)
PosixRelpath(to, start) ==
    IF to # <<>> /\ start # <<>> /\ Head(to) = Head(start)
    THEN PosixRelpath(Tail(to), Tail(start))
    ELSE [k \in 1..Len(start) |-> ".."] \o to

\* BasePath.relpath(start, prefix): a string, no longer a path object
relpath(p, start, prefix) ==
    IF p.root = "absolute" THEN "/" \o JoinStr(p.suffix, "/")
    ELSE LET rel == PosixRelpath(p.suffix, start.suffix)
         IN IF rel = <<>> THEN prefix
            ELSE JoinStr(<<prefix>> \o rel, "/")

\* BasePath.realize / string with the roots spelled as make variables
PathStr(p) ==
    IF p.root = "absolute" THEN "/" \o JoinStr(p.suffix, "/")
    ELSE IF p.root = "builddir"
         THEN (IF p.suffix = <<>> THEN "." ELSE JoinStr(p.suffix, "/"))
    ELSE IF p.suffix = <<>> THEN "$(" \o p.root \o ")"
    ELSE "$(" \o p.root \o ")/" \o JoinStr(p.suffix, "/")

(***************************************************************************)
(* Libraries (file_types / packages) and the option model (options).       *)
(***************************************************************************)
\* A file name as the pieces the linkers' name patterns look at.
FileName(prefix, stem, ext) == [prefix |-> prefix, stem |-> stem, ext |-> ext]

BaseNameStr(f) == f.prefix \o f.stem \o f.ext

\* type: "str" (a bare name), "Framework", or a file type: "Library",
\* "SharedLibrary", "StaticLibrary", "WholeArchive" (a StaticLibrary).
\* runtime: the library has a runtime_file (itself, in its own directory);
\* deps: the directories of the files recursive_walk(runtime_deps) reaches.
Lib(type, dir, file, creator, runtime, deps) ==
    [type |-> type, dir |-> dir, file |-> file, creator |-> creator,
     runtime |-> runtime, deps |-> deps]

NoLib == Lib("none", NoPath, FileName("", "", ""), FALSE, FALSE, <<>>)

LibraryTypes == {"Library", "SharedLibrary", "StaticLibrary", "WholeArchive"}
StaticLibraryTypes == {"StaticLibrary", "WholeArchive"}

LibPathStr(lib) ==
    IF lib.dir.root = "builddir" /\ lib.dir.suffix = <<>>
    THEN BaseNameStr(lib.file)
    ELSE PathStr(lib.dir) \o "/" \o BaseNameStr(lib.file)

Opt(kind) ==
    [kind |-> kind, path |-> NoPath, text |-> "", value |-> "",
     levels |-> <<>>, system |-> FALSE, when |-> {}, library |-> NoLib]

include_dir(dir, system) ==
    [Opt("include_dir") EXCEPT !.path = dir, !.system = system]
define(name, value) == [Opt("define") EXCEPT !.text = name, !.value = value]
std(value) == [Opt("std") EXCEPT !.value = value]
warning(levels) == [Opt("warning") EXCEPT !.levels = levels]
optimize(levels) == [Opt("optimize") EXCEPT !.levels = levels]
pch(header) == [Opt("pch") EXCEPT !.text = header]
lib(library) == [Opt("lib") EXCEPT !.library = library]
lib_dir(dir) == [Opt("lib_dir") EXCEPT !.path = dir]
lib_literal(value) == [Opt("lib_literal") EXCEPT !.value = value]
rpath_dir(dir, when) == [Opt("rpath_dir") EXCEPT !.path = dir, !.when = when]
rpath_link_dir(dir) == [Opt("rpath_link_dir") EXCEPT !.path = dir]
module_def(file) == [Opt("module_def") EXCEPT !.text = file]
entry_point(value) == [Opt("entry_point") EXCEPT !.value = value]
literal(text) == [Opt("str") EXCEPT !.text = text]

\* opts.RpathWhen
RpathAlways == {"installed", "uninstalled"}

(***************************************************************************)
(* What a call gives back: a value, or the exception it raised.            *)
(***************************************************************************)
\* A command-line token: the flag's own text, and the path, name or value
\* the translator appended to it ("" when there is none); a token that is
\* only an argument (the path after -isystem, a literal string) has flag "".
Tok(flag, arg) == [flag |-> flag, arg |-> arg]

Returned(flags) == [err |-> "none", msg |-> "", flags |-> flags]
Raised(err, msg) == [err |-> err, msg |-> msg, flags |-> <<>>]

UnknownOptionType(i) == Raised("TypeError", "unknown option type " \o i.kind)

(***************************************************************************)
(* Target platforms and the builder a translator belongs to.               *)
(***************************************************************************)
LinuxTarget ==
    [genus |-> "linux", family |-> "posix", object_format |-> "elf",
     executable_ext |-> "", shared_library_ext |-> ".so",
     has_import_library |-> FALSE, has_versioned_library |-> TRUE,
     has_frameworks |-> FALSE]

DarwinTarget ==
    [LinuxTarget EXCEPT !.genus = "darwin", !.object_format = "mach-o",
                        !.shared_library_ext = ".dylib",
                        !.has_frameworks = TRUE]

\* The PE/COFF target a cc-family (MinGW) linker is used for.
WindowsTarget ==
    [genus |-> "winnt", family |-> "windows", object_format |-> "coff",
     executable_ext |-> ".exe", shared_library_ext |-> ".dll",
     has_import_library |-> TRUE, has_versioned_library |-> FALSE,
     has_frameworks |-> FALSE]

\* PosixHostPlatform.include_dirs, lib_dirs
HostIncludeDirs ==
    <<Path("absolute", <<"usr", "local", "include">>),
      Path("absolute", <<"usr", "include">>)>>

HostLibDirs ==
    <<Path("absolute", <<"usr", "local", "lib">>),
      Path("absolute", <<"lib">>),
      Path("absolute", <<"usr", "lib">>)>>

\* The raw link-editor (builder.linker('raw')), when discovery found one.
NoLd == [present |-> FALSE, brand |-> "unknown", version |-> 0]
Ld(brand, version) == [present |-> TRUE, brand |-> brand, version |-> version]

\* binutils versions as major * 100 + minor; SpecifierSet('<2.28')
BfdFixedVersion == 228

Builder(lang, platform, ld) == [lang |-> lang, platform |-> platform, ld |-> ld]

\* flags(..., output=None): an output file and, when versioned, its soname
Output(path, soname) == [path |-> path, soname |-> soname]
NoOutput == Output(NoPath, NoPath)

(***************************************************************************)
(* tools/cc.py: CcBaseCompiler                                              *)
(***************************************************************************)
_optimize_flags_cc ==
    [disable |-> Tok("-O0", ""), size |-> Tok("-Osize", ""),
     speed |-> Tok("-O3", ""), linktime |-> Tok("-flto", "")]

\* An _include_dir that would use -isystem for every system directory.
CcIncludeDirSystemAlways(directory, system) ==
    IF system
    THEN <<Tok("-isystem", ""), Tok("", PathStr(directory))>>
    ELSE <<Tok("-I", PathStr(directory))>>

\* CcBaseCompiler._include_dir
CcIncludeDir(directory, system) ==
    LET is_default == Contains(HostIncludeDirs, directory)
    IN IF system /\ ~is_default
       THEN <<Tok("-isystem", ""), Tok("", PathStr(directory))>>
       ELSE <<Tok("-I", PathStr(directory))>>

CcWarningFlag(j) == IF j = "disable" THEN Tok("-w", "") ELSE Tok("-W", j)

\* One turn of the loop of CcBaseCompiler.flags on option i.
CcCompilerOption(i, acc) ==
    CASE i.kind = "include_dir" ->
            Returned(acc.flags \o CcIncludeDir(i.path, i.system))
      [] i.kind = "define" ->
            Returned(Append(acc.flags,
                IF i.value # "" THEN Tok("-D", i.text \o "=" \o i.value)
                ELSE Tok("-D", i.text)))
      [] i.kind = "std" -> Returned(Append(acc.flags, Tok("-std=", i.value)))
      [] i.kind = "warning" ->
            Returned(acc.flags \o
                     [k \in 1..Len(i.levels) |-> CcWarningFlag(i.levels[k])])
      [] i.kind = "debug" -> Returned(Append(acc.flags, Tok("-g", "")))
      [] i.kind = "static" -> acc
      [] i.kind = "optimize" ->
            Returned(acc.flags \o
                [k \in 1..Len(i.levels) |-> _optimize_flags_cc[i.levels[k]]])
      [] i.kind = "pthread" -> Returned(Append(acc.flags, Tok("-pthread", "")))
      [] i.kind = "pic" -> Returned(Append(acc.flags, Tok("-fPIC", "")))
      [] i.kind = "pch" -> Returned(acc.flags \o <<Tok("-include", ""), Tok("", i.text)>>)
      [] i.kind = "sanitize" ->
            Returned(Append(acc.flags, Tok("-fsanitize=address", "")))
      [] i.kind = "str" -> Returned(Append(acc.flags, Tok("", i.text)))
      [] OTHER -> UnknownOptionType(i)

RECURSIVE CcCompilerLoop(_, _)
CcCompilerLoop(opts, acc) ==
    IF opts = <<>> \/ acc.err # "none" THEN acc
    ELSE CcCompilerLoop(Tail(opts), CcCompilerOption(Head(opts), acc))

CcCompilerFlagsOf(opts, out, md) == CcCompilerLoop(opts, Returned(<<>>))

(***************************************************************************)
(* tools/cc.py: CcLinker                                                    *)
(***************************************************************************)
\* The accumulators of a linker's flags(): flags, rpaths, rpath_links,
\* lib_dirs, and the exception once one is raised.
LinkAcc(flags, rpaths, rpath_links, lib_dirs) ==
    [err |-> "none", msg |-> "", flags |-> flags, rpaths |-> rpaths,
     rpath_links |-> rpath_links, lib_dirs |-> lib_dirs]

LinkRaised(err, msg) ==
    [err |-> err, msg |-> msg, flags |-> <<>>, rpaths |-> <<>>,
     rpath_links |-> <<>>, lib_dirs |-> <<>>]

\* An rpath entry: a path object, or the string relpath() made of one.
PathEntry(p) == [ispath |-> TRUE, path |-> p, str |-> ""]
StrEntry(s) == [ispath |-> FALSE, path |-> NoPath, str |-> s]
EntryStr(x) == IF x.ispath THEN PathStr(x.path) ELSE x.str

\* CcLinker._lib_re / _extract_lib_name: lib(.*)\.a, and lib(.*)<shared ext>
\* where the platform has no import libraries.  "" stands for no match.
CcLibNameMatchesSharedEverywhere(b, file) ==
    /\ file.prefix = "lib"
    /\ file.ext \in {".a", b.platform.shared_library_ext}

CcLibNameMatches(b, file) ==
    /\ file.prefix = "lib"
    /\ \/ file.ext = ".a"
       \/ /\ ~b.platform.has_import_library
          /\ file.ext = b.platform.shared_library_ext

CcExtractLibName(b, library) ==
    IF CcLibNameMatches(b, library.file)
    THEN Returned(<<library.file.stem>>)
    ELSE Raised("ValueError",
                "'" \o BaseNameStr(library.file)
                    \o "' is not a valid library name")

\* CcLinker._local_rpath: <<rpath, rpath_link>> or the exception
RpathResult(rpath, rpath_link) ==
    [err |-> "none", msg |-> "", rpath |-> rpath, rpath_link |-> rpath_link]

\* A workaround test that would look at the brand only.
CcFixRpathAnyVersion(b) == b.ld.present /\ b.ld.brand = "bfd"

CcFixRpath(b) ==
    b.ld.present /\ b.ld.brand = "bfd" /\ b.ld.version < BfdFixedVersion

CcLocalRpath(b, library, out) ==
    IF library.type \notin LibraryTypes THEN RpathResult(<<>>, <<>>)
    ELSE IF library.runtime /\ b.platform.object_format = "elf"
    THEN LET path == library.dir
             local == path.root # "absolute" /\
                      path.root \notin InstallRootNames
         IN IF local /\ out = NoOutput
            THEN [err |-> "ValueError", msg |-> "unable to construct rpath",
                  rpath |-> <<>>, rpath_link |-> <<>>]
            ELSE RpathResult(
                    <<IF local /\ path.root = out.path.root
                      THEN StrEntry(relpath(path, parent(out.path), "$ORIGIN"))
                      ELSE PathEntry(path)>>,
                    IF out # NoOutput /\ CcFixRpath(b)
                    THEN [k \in 1..Len(library.deps) |->
                              PathEntry(library.deps[k])]
                    ELSE <<>>)
    ELSE RpathResult(<<>>, <<>>)

\* CcLinker._lib_dir
CcLibDir(b, library, raw_link) ==
    IF library.type \notin LibraryTypes THEN Returned(<<>>)
    ELSE IF library.type \in StaticLibraryTypes
    THEN Returned(IF raw_link THEN <<>> ELSE <<library.dir>>)
    ELSE IF library.type = "SharedLibrary"
    THEN Returned(IF raw_link /\ library.creator THEN <<>>
                  ELSE <<library.dir>>)
    ELSE IF CcExtractLibName(b, library).err = "none"
    THEN Returned(<<library.dir>>)
    ELSE IF raw_link THEN Returned(<<>>)
    ELSE CcExtractLibName(b, library)

\* The lib branch of CcLinker.flags
CcLinkerLibOption(b, i, out, pkgconf_mode, acc) ==
    LET dirs == CcLibDir(b, i.library, ~pkgconf_mode)
        rp == CcLocalRpath(b, i.library, out)
    IN IF dirs.err # "none" THEN LinkRaised(dirs.err, dirs.msg)
       ELSE IF pkgconf_mode
       THEN [acc EXCEPT !.lib_dirs = @ \o dirs.flags]
       ELSE IF rp.err # "none" THEN LinkRaised(rp.err, rp.msg)
       ELSE [acc EXCEPT !.lib_dirs = @ \o dirs.flags,
                        !.rpaths = @ \o rp.rpath,
                        !.rpath_links = @ \o rp.rpath_link]

\* One turn of the loop of CcLinker.flags on option i.
CcLinkerOption(b, i, out, pkgconf_mode, acc) ==
    CASE i.kind = "lib_dir" -> [acc EXCEPT !.lib_dirs = Append(@, i.path)]
      [] i.kind = "lib" -> CcLinkerLibOption(b, i, out, pkgconf_mode, acc)
      [] i.kind = "rpath_dir" ->
            IF ~pkgconf_mode /\ "uninstalled" \in i.when
            THEN [acc EXCEPT !.rpaths = Append(@, PathEntry(i.path))]
            ELSE acc
      [] i.kind = "rpath_link_dir" ->
            IF ~pkgconf_mode
            THEN [acc EXCEPT !.rpath_links = Append(@, PathEntry(i.path))]
            ELSE acc
      [] i.kind = "module_def" ->
            IF b.platform.has_import_library
            THEN [acc EXCEPT !.flags = Append(@, Tok("", i.text))]
            ELSE acc
      [] i.kind = "debug" -> [acc EXCEPT !.flags = Append(@, Tok("-g", ""))]
      [] i.kind = "static" -> [acc EXCEPT !.flags = Append(@, Tok("-static", ""))]
      [] i.kind = "optimize" ->
            [acc EXCEPT !.flags = @ \o
                [k \in 1..Len(i.levels) |-> _optimize_flags_cc[i.levels[k]]]]
      [] i.kind = "pthread" ->
            IF b.platform.genus # "darwin"
            THEN [acc EXCEPT !.flags = Append(@, Tok("-pthread", ""))]
            ELSE acc
      [] i.kind = "entry_point" ->
            IF b.lang # "java"
            THEN LinkRaised("ValueError", "entry point only applies to java")
            ELSE [acc EXCEPT !.flags = Append(@, Tok("--main=", i.value))]
      [] i.kind = "str" -> [acc EXCEPT !.flags = Append(@, Tok("", i.text))]
      [] i.kind = "install_name_change" -> acc
      [] i.kind = "lib_literal" -> acc
      [] OTHER -> LinkRaised("TypeError", UnknownOptionType(i).msg)

RECURSIVE CcLinkerLoop(_, _, _, _, _)
CcLinkerLoop(b, opts, out, pkgconf_mode, acc) ==
    IF opts = <<>> \/ acc.err # "none" THEN acc
    ELSE CcLinkerLoop(b, Tail(opts), out, pkgconf_mode,
                      CcLinkerOption(b, Head(opts), out, pkgconf_mode, acc))

RpathToken(prefix, entries) ==
    Tok(prefix, JoinStr([k \in 1..Len(entries) |-> EntryStr(entries[k])], ":"))

\* A linker tail that would emit one -L per collected directory, repeats
\* included.
CcLinkerTailKeepingRepeats(acc) ==
    acc.flags
    \o [k \in 1..Len(acc.lib_dirs) |-> Tok("-L", PathStr(acc.lib_dirs[k]))]
    \o (IF acc.rpaths # <<>>
        THEN <<RpathToken("-Wl,-rpath,", acc.rpaths)>> ELSE <<>>)
    \o (IF acc.rpath_links # <<>>
        THEN <<RpathToken("-Wl,-rpath-link,", acc.rpath_links)>>
        ELSE <<>>)

\* What follows the loop of CcLinker.flags: -L, -rpath, -rpath-link.
CcLinkerTail(acc) ==
    LET dirs == uniques(acc.lib_dirs)
    IN acc.flags
       \o [k \in 1..Len(dirs) |-> Tok("-L", PathStr(dirs[k]))]
       \o (IF acc.rpaths # <<>>
           THEN <<RpathToken("-Wl,-rpath,", acc.rpaths)>> ELSE <<>>)
       \o (IF acc.rpath_links # <<>>
           THEN <<RpathToken("-Wl,-rpath-link,", acc.rpath_links)>>
           ELSE <<>>)

CcLinkerFlagsOf(b, opts, out, md) ==
    LET acc == CcLinkerLoop(b, opts, out, md = "pkg-config",
                            LinkAcc(<<>>, <<>>, <<>>, <<>>))
    IN IF acc.err # "none" THEN Raised(acc.err, acc.msg)
       ELSE Returned(CcLinkerTail(acc))

\* A shared-library linker that would name no soname.
CcSonameOmitted(b, out) == <<>>

\* CcSharedLibraryLinker._soname
CcSoname(b, out) ==
    IF b.platform.genus = "darwin"
    THEN <<Tok("-install_name", ""),
           Tok("", PathStr(IF out.soname # NoPath THEN out.soname
                           ELSE out.path))>>
    ELSE LET soname == IF out.soname # NoPath THEN out.soname ELSE out.path
         IN <<Tok("-Wl,-soname,", soname.suffix[Len(soname.suffix)])>>

\* CcSharedLibraryLinker.flags
CcSharedLibraryLinkerFlagsOf(b, opts, out, md) ==
    LET base == CcLinkerFlagsOf(b, opts, out, md)
    IN IF base.err # "none" THEN base
       ELSE IF out # NoOutput THEN Returned(base.flags \o CcSoname(b, out))
       ELSE base

(***************************************************************************)
(* tools/msvc.py: MsvcBaseCompiler, MsvcLinker, MsvcStaticLinker            *)
(***************************************************************************)
_warning_flags_msvc ==
    [disable |-> Tok("/w", ""), all |-> Tok("/W3", ""),
     extra |-> Tok("/W4", ""), error |-> Tok("/WX", "")]

_optimize_flags_msvc ==
    [disable |-> Tok("/Od", ""), size |-> Tok("/O1", ""),
     speed |-> Tok("/O2", ""), linktime |-> Tok("/GL", "")]

MsvcAcc(flags, debug, static) ==
    [err |-> "none", msg |-> "", flags |-> flags, debug |-> debug,
     static |-> static]

MsvcRaised(err, msg) ==
    [err |-> err, msg |-> msg, flags |-> <<>>, debug |-> FALSE,
     static |-> FALSE]

\* One turn of the loop of MsvcBaseCompiler.flags on option i.
MsvcCompilerOption(i, syntax, acc) ==
    CASE i.kind = "include_dir" ->
            [acc EXCEPT !.flags = Append(@,
                Tok(IF syntax = "cc" THEN "-I" ELSE "/I", PathStr(i.path)))]
      [] i.kind = "define" ->
            LET prefix == IF syntax = "cc" THEN "-D" ELSE "/D"
            IN [acc EXCEPT !.flags = Append(@,
                   IF i.value # "" THEN Tok(prefix, i.text \o "=" \o i.value)
                   ELSE Tok(prefix, i.text))]
      [] i.kind = "std" -> [acc EXCEPT !.flags = Append(@, Tok("/std:", i.value))]
      [] i.kind = "warning" ->
            [acc EXCEPT !.flags = @ \o
                [k \in 1..Len(i.levels) |-> _warning_flags_msvc[i.levels[k]]]]
      [] i.kind = "debug" ->
            [acc EXCEPT !.debug = TRUE, !.flags = Append(@, Tok("/Zi", ""))]
      [] i.kind = "static" -> [acc EXCEPT !.static = TRUE]
      [] i.kind = "optimize" ->
            [acc EXCEPT !.flags = @ \o
                [k \in 1..Len(i.levels) |-> _optimize_flags_msvc[i.levels[k]]]]
      [] i.kind = "pch" -> [acc EXCEPT !.flags = Append(@, Tok("/Yu", i.text))]
      [] i.kind = "sanitize" -> [acc EXCEPT !.flags = Append(@, Tok("/RTC1", ""))]
      [] i.kind = "str" -> [acc EXCEPT !.flags = Append(@, Tok("", i.text))]
      [] OTHER -> MsvcRaised("TypeError", UnknownOptionType(i).msg)

RECURSIVE MsvcCompilerLoop(_, _, _)
MsvcCompilerLoop(opts, syntax, acc) ==
    IF opts = <<>> \/ acc.err # "none" THEN acc
    ELSE MsvcCompilerLoop(Tail(opts), syntax,
                          MsvcCompilerOption(Head(opts), syntax, acc))

\* The runtime-library flag MsvcBaseCompiler.flags ends with.
MsvcRuntimeFlag(md, acc) ==
    IF md # "pkg-config" /\ (acc.static \/ acc.debug)
    THEN <<Tok("/M", (IF acc.static THEN "T" ELSE "D")
                     \o (IF acc.debug THEN "d" ELSE ""))>>
    ELSE <<>>

MsvcCompilerFlagsOf(opts, out, md) ==
    LET syntax == IF md = "pkg-config" THEN "cc" ELSE "msvc"
        acc == MsvcCompilerLoop(opts, syntax, MsvcAcc(<<>>, FALSE, FALSE))
    IN IF acc.err # "none" THEN Raised(acc.err, acc.msg)
       ELSE Returned(acc.flags \o MsvcRuntimeFlag(md, acc))

\* MsvcLinker._lib_dir; a bare name or a framework has no .path
MsvcLibDir(library, syntax) ==
    IF syntax = "cc" /\ library.type # "WholeArchive"
    THEN IF library.type \in LibraryTypes THEN Returned(<<library.dir>>)
         ELSE Raised("AttributeError", "no attribute path")
    ELSE Returned(<<>>)

\* One turn of the loop of MsvcLinker.flags on option i.
MsvcLinkerOption(i, syntax, acc) ==
    CASE i.kind = "lib_dir" -> [acc EXCEPT !.lib_dirs = Append(@, i.path)]
      [] i.kind = "lib" ->
            LET dirs == MsvcLibDir(i.library, syntax)
            IN IF dirs.err # "none" THEN LinkRaised(dirs.err, dirs.msg)
               ELSE [acc EXCEPT !.lib_dirs = @ \o dirs.flags]
      [] i.kind = "module_def" ->
            [acc EXCEPT !.flags = Append(@, Tok("/DEF:", i.text))]
      [] i.kind = "debug" -> [acc EXCEPT !.flags = Append(@, Tok("/DEBUG", ""))]
      [] i.kind = "static" -> acc
      [] i.kind = "optimize" ->
            IF Contains(i.levels, "linktime")
            THEN [acc EXCEPT !.flags = Append(@, Tok("/LTCG", ""))]
            ELSE acc
      [] i.kind = "str" -> [acc EXCEPT !.flags = Append(@, Tok("", i.text))]
      [] i.kind = "lib_literal" -> acc
      [] OTHER -> LinkRaised("TypeError", UnknownOptionType(i).msg)

RECURSIVE MsvcLinkerLoop(_, _, _)
MsvcLinkerLoop(opts, syntax, acc) ==
    IF opts = <<>> \/ acc.err # "none" THEN acc
    ELSE MsvcLinkerLoop(Tail(opts), syntax,
                        MsvcLinkerOption(Head(opts), syntax, acc))

\* What follows the loop of MsvcLinker.flags: -L or /LIBPATH:
MsvcLinkerTail(syntax, acc) ==
    LET dirs == uniques(acc.lib_dirs)
        prefix == IF syntax = "cc" THEN "-L" ELSE "/LIBPATH:"
    IN acc.flags \o [k \in 1..Len(dirs) |-> Tok(prefix, PathStr(dirs[k]))]

MsvcLinkerFlagsOf(opts, out, md) ==
    LET syntax == IF md = "pkg-config" THEN "cc" ELSE "msvc"
        acc == MsvcLinkerLoop(opts, syntax, LinkAcc(<<>>, <<>>, <<>>, <<>>))
    IN IF acc.err # "none" THEN Raised(acc.err, acc.msg)
       ELSE Returned(MsvcLinkerTail(syntax, acc))

\* A static linker that would pass over an option it has no branch for.
MsvcStaticLinkerOptionSkipping(i, acc) ==
    IF i.kind = "str" THEN Returned(Append(acc.flags, Tok("", i.text)))
    ELSE acc

\* One turn of the loop of MsvcStaticLinker.flags on option i.
MsvcStaticLinkerOption(i, acc) ==
    IF i.kind = "str" THEN Returned(Append(acc.flags, Tok("", i.text)))
    ELSE UnknownOptionType(i)

RECURSIVE MsvcStaticLinkerLoop(_, _)
MsvcStaticLinkerLoop(opts, acc) ==
    IF opts = <<>> \/ acc.err # "none" THEN acc
    ELSE MsvcStaticLinkerLoop(Tail(opts),
                              MsvcStaticLinkerOption(Head(opts), acc))

MsvcStaticLinkerFlagsOf(opts, out, md) ==
    MsvcStaticLinkerLoop(opts, Returned(<<>>))

(***************************************************************************)
(* tools/jvm.py: JvmCompiler, JarMaker                                      *)
(***************************************************************************)
\* _warning_flags[lang], "" where the language's table has no entry
_warning_flags_jvm(lang, j) ==
    IF lang = "java"
    THEN (CASE j = "disable" -> "-nowarn" [] j = "error" -> "-Werror"
            [] j = "all" -> "-Xlint:all" [] OTHER -> "")
    ELSE (CASE j = "disable" -> "-nowarn" [] j = "error" -> "-Xfatal-errors"
            [] j = "all" -> "-Xlint:_" [] OTHER -> "")

JvmAcc(flags, class_path) ==
    [err |-> "none", msg |-> "", flags |-> flags, class_path |-> class_path]

JvmRaised(err, msg) ==
    [err |-> err, msg |-> msg, flags |-> <<>>, class_path |-> <<>>]

\* A warning branch that would leave out the levels the language has no
\* flag for.
JvmWarningOptionDropping(lang, i, acc) ==
    LET known == SelectSeq(i.levels,
                           LAMBDA j : _warning_flags_jvm(lang, j) # "")
    IN [acc EXCEPT !.flags = @ \o
            [k \in 1..Len(known) |->
                Tok(_warning_flags_jvm(lang, known[k]), "")]]

\* The warning branch of JvmCompiler.flags
JvmWarningOption(lang, i, acc) ==
    IF \E k \in 1..Len(i.levels) : _warning_flags_jvm(lang, i.levels[k]) = ""
    THEN LET bad == CHOOSE k \in 1..Len(i.levels) :
                      /\ _warning_flags_jvm(lang, i.levels[k]) = ""
                      /\ \A m \in 1..(k - 1) :
                            _warning_flags_jvm(lang, i.levels[m]) # ""
         IN JvmRaised("ValueError",
                      "unsupported warning level " \o i.levels[bad])
    ELSE [acc EXCEPT !.flags = @ \o
            [k \in 1..Len(i.levels) |->
                Tok(_warning_flags_jvm(lang, i.levels[k]), "")]]

\* One turn of the loop of JvmCompiler.flags on option i.
JvmCompilerOption(lang, i, acc) ==
    CASE i.kind = "lib" ->
            [acc EXCEPT !.class_path = Append(@, LibPathStr(i.library))]
      [] i.kind = "warning" -> JvmWarningOption(lang, i, acc)
      [] i.kind = "debug" ->
            [acc EXCEPT !.flags =
                Append(@, Tok(IF lang = "java" THEN "-g" ELSE "-g:vars", ""))]
      [] i.kind = "optimize" ->
            IF lang = "scala" /\ (Contains(i.levels, "size") \/
                                  Contains(i.levels, "speed"))
            THEN [acc EXCEPT !.flags = Append(@, Tok("-optimize", ""))]
            ELSE acc
      [] i.kind = "str" -> [acc EXCEPT !.flags = Append(@, Tok("", i.text))]
      [] OTHER -> JvmRaised("TypeError", UnknownOptionType(i).msg)

RECURSIVE JvmCompilerLoop(_, _, _)
JvmCompilerLoop(lang, opts, acc) ==
    IF opts = <<>> \/ acc.err # "none" THEN acc
    ELSE JvmCompilerLoop(lang, Tail(opts),
                         JvmCompilerOption(lang, Head(opts), acc))

JvmCompilerFlagsOf(lang, opts, out, md) ==
    LET acc == JvmCompilerLoop(lang, opts, JvmAcc(<<>>, <<>>))
    IN IF acc.err # "none" THEN Raised(acc.err, acc.msg)
       ELSE Returned(acc.flags \o
               (IF acc.class_path # <<>>
                THEN <<Tok("-cp", ""),
                       Tok("", JoinStr(uniques(acc.class_path), ":"))>>
                ELSE <<>>))

\* One turn of the loop of JarMaker.flags on option i.
JarMakerOption(i, acc) ==
    CASE i.kind = "str" -> Returned(Append(acc.flags, Tok("", i.text)))
      [] i.kind = "debug" -> acc
      [] i.kind = "optimize" -> acc
      [] OTHER -> UnknownOptionType(i)

RECURSIVE JarMakerLoop(_, _)
JarMakerLoop(opts, acc) ==
    IF opts = <<>> \/ acc.err # "none" THEN acc
    ELSE JarMakerLoop(Tail(opts), JarMakerOption(Head(opts), acc))

JarMakerFlagsOf(opts, out, md) == JarMakerLoop(opts, Returned(<<>>))

(***************************************************************************)
(* The flag translators as a state machine: one call of flags() on an      *)
(* option list drawn from OptionPool.                                      *)
(***************************************************************************)
MaxOpts == 3

BuildLibDir == Path("builddir", <<"lib">>)
OptLibDir == Path("absolute", <<"opt", "lib">>)
SrcIncludeDir == Path("srcdir", <<"include">>)

LibFoo ==
    Lib("SharedLibrary", BuildLibDir, FileName("lib", "foo", ".so"),
        FALSE, TRUE, <<>>)

OptionPool ==
    { include_dir(SrcIncludeDir, FALSE),
      include_dir(SrcIncludeDir, TRUE),
      lib_dir(BuildLibDir),
      lib_dir(OptLibDir),
      lib(LibFoo),
      rpath_dir(OptLibDir, RpathAlways),
      rpath_link_dir(OptLibDir),
      entry_point("Main"),
      warning(<<"extra">>),
      literal("-custom") }

OptionLists == SeqsUpTo(OptionPool, MaxOpts)

Modes == {"normal", "pkg-config"}

CcBuilders ==
    { Builder("c", LinuxTarget, NoLd), Builder("java", LinuxTarget, NoLd),
      Builder("c", DarwinTarget, NoLd), Builder("c", WindowsTarget, NoLd) }

JvmLangs == {"java", "scala"}

Outputs ==
    { NoOutput,
      Output(Path("builddir", <<"bin", "libout.so">>), NoPath) }

NoBuilder == Builder("none", LinuxTarget, NoLd)

\* No package-resolution call: name, submodules, version, kind, get_version
NoRequest ==
    [name |-> "", version |-> 0, kind |-> "any", get_version |-> "none",
     can_auto_link |-> FALSE]

InitFlags ==
    /\ pc = "idle"
    /\ tool = "none"
    /\ env = NoBuilder
    /\ options = <<>>
    /\ output = NoOutput
    /\ mode = "normal"
    /\ result = Returned(<<>>)
    /\ request = NoRequest
    /\ calls = <<>>
    /\ cache = {}

FlagsCall(t, b, opts, out, md, res) ==
    /\ pc' = "done"
    /\ tool' = t
    /\ env' = b
    /\ options' = opts
    /\ output' = out
    /\ mode' = md
    /\ result' = res
    /\ UNCHANGED <<request, calls, cache>>

CcCompilerFlags ==
    /\ pc = "idle"
    /\ \E opts \in OptionLists, out \in Outputs, md \in Modes :
        FlagsCall("CcCompiler", NoBuilder, opts, out, md,
                  CcCompilerFlagsOf(opts, out, md))

CcLinkerFlags ==
    /\ pc = "idle"
    /\ \E b \in CcBuilders, opts \in OptionLists, out \in Outputs, md \in Modes :
        FlagsCall("CcLinker", b, opts, out, md,
                  CcLinkerFlagsOf(b, opts, out, md))

CcSharedLibraryLinkerFlags ==
    /\ pc = "idle"
    /\ \E b \in CcBuilders, opts \in OptionLists, out \in Outputs, md \in Modes :
        FlagsCall("CcSharedLibraryLinker", b, opts, out, md,
                  CcSharedLibraryLinkerFlagsOf(b, opts, out, md))

MsvcCompilerFlags ==
    /\ pc = "idle"
    /\ \E opts \in OptionLists, out \in Outputs, md \in Modes :
        FlagsCall("MsvcCompiler", NoBuilder, opts, out, md,
                  MsvcCompilerFlagsOf(opts, out, md))

MsvcLinkerFlags ==
    /\ pc = "idle"
    /\ \E opts \in OptionLists, out \in Outputs, md \in Modes :
        FlagsCall("MsvcLinker", NoBuilder, opts, out, md,
                  MsvcLinkerFlagsOf(opts, out, md))

MsvcStaticLinkerFlags ==
    /\ pc = "idle"
    /\ \E opts \in OptionLists, out \in Outputs, md \in Modes :
        FlagsCall("MsvcStaticLinker", NoBuilder, opts, out, md,
                  MsvcStaticLinkerFlagsOf(opts, out, md))

JvmCompilerFlags ==
    /\ pc = "idle"
    /\ \E lang \in JvmLangs, opts \in OptionLists, out \in Outputs,
          md \in Modes :
        FlagsCall("JvmCompiler", Builder(lang, LinuxTarget, NoLd), opts,
                  out, md, JvmCompilerFlagsOf(lang, opts, out, md))

JarMakerFlags ==
    /\ pc = "idle"
    /\ \E opts \in OptionLists, out \in Outputs, md \in Modes :
        FlagsCall("JarMaker", NoBuilder, opts, out, md,
                  JarMakerFlagsOf(opts, out, md))

NextFlags ==
    \/ CcCompilerFlags
    \/ CcLinkerFlags
    \/ CcSharedLibraryLinkerFlags
    \/ MsvcCompilerFlags
    \/ MsvcLinkerFlags
    \/ MsvcStaticLinkerFlags
    \/ JvmCompilerFlags
    \/ JarMakerFlags

SpecFlags == InitFlags /\ [][NextFlags]_vars

(***************************************************************************)
(* Properties of the flag translators (checked under SpecFlags)            *)
(***************************************************************************)
\* The option kinds flags() of each translator has an isinstance branch for.
OptionTypes(t) ==
    CASE t = "CcCompiler" ->
            {"include_dir", "define", "std", "warning", "debug", "static",
             "optimize", "pthread", "pic", "pch", "sanitize", "str"}
      [] t \in {"CcLinker", "CcSharedLibraryLinker"} ->
            {"lib_dir", "lib", "rpath_dir", "rpath_link_dir", "module_def",
             "debug", "static", "optimize", "pthread", "entry_point", "str",
             "install_name_change", "lib_literal"}
      [] t = "MsvcCompiler" ->
            {"include_dir", "define", "std", "warning", "debug", "static",
             "optimize", "pch", "sanitize", "str"}
      [] t = "MsvcLinker" ->
            {"lib_dir", "lib", "module_def", "debug", "static", "optimize",
             "str", "lib_literal"}
      [] t = "MsvcStaticLinker" -> {"str"}
      [] t = "JvmCompiler" -> {"lib", "warning", "debug", "optimize", "str"}
      [] t = "JarMaker" -> {"str", "debug", "optimize"}
      [] OTHER -> {}

\* The positions of the options the called translator does not recognize.
UnknownAt ==
    {k \in 1..Len(options) : options[k].kind \notin OptionTypes(tool)}

FirstUnknown == CHOOSE k \in UnknownAt : \A m \in UnknownAt : k <= m

\* The option kinds whose own branch can raise: entry_point on a linker
\* whose language is not java, lib when no rpath or library name can be
\* built, warning when the JVM language has no flag for a level.
RaisingKinds == {"entry_point", "lib", "warning"}

\* C1 (as stated): whenever the option list holds a kind the translator does
\* not recognize, flags() raises the unknown-option-type error naming that
\* kind, wherever the option sits in the list.
C1_UnknownOptionAlwaysNamed ==
    (pc = "done" /\ UnknownAt # {}) =>
        \E k \in UnknownAt : result = UnknownOptionType(options[k])

\* C1 (amended): on a list holding an unrecognized kind flags() never returns
\* flags; it raises the unknown-option-type error naming the first
\* unrecognized kind, unless a recognized option placed before it raised its
\* own ValueError first.
C1_UnknownOptionNeverTranslated ==
    (pc = "done" /\ UnknownAt # {}) =>
        /\ result.err # "none"
        /\ \/ result = UnknownOptionType(options[FirstUnknown])
           \/ /\ result.err = "ValueError"
              /\ \E j \in 1..(FirstUnknown - 1) :
                    options[j].kind \in RaisingKinds

\* C1's case: the unrecognized option is the last of three and is the one
\* the error names.
C1_UnknownOptionLast ==
    /\ pc = "done"
    /\ tool = "MsvcStaticLinker"
    /\ UnknownAt = {3}
    /\ result = UnknownOptionType(options[3])

\* The tokens of a flag list that name an include directory or a library
\* directory, in order.
IncludeFlags == {"-I", "/I"}
LibDirFlags == {"-L", "/LIBPATH:"}

IncludeArgs(flags) ==
    LET marked == [k \in 1..Len(flags) |->
                    [arg |-> flags[k].arg,
                     hit |-> \/ flags[k].flag \in IncludeFlags
                             \/ k > 1 /\ flags[k - 1].flag = "-isystem"]]
        hits == SelectSeq(marked, LAMBDA x : x.hit)
    IN [k \in 1..Len(hits) |-> hits[k].arg]

LibDirArgs(flags) ==
    LET hits == SelectSeq(flags, LAMBDA x : x.flag \in LibDirFlags)
    IN [k \in 1..Len(hits) |-> hits[k].arg]

\* The directories the option list gives, in option order: the include_dir
\* options' directories, and the directories of the lib_dir options and of
\* the lib options the linker passes by directory.
RECURSIVE IncludeDirsGiven(_)
IncludeDirsGiven(opts) ==
    IF opts = <<>> THEN <<>>
    ELSE (IF Head(opts).kind = "include_dir"
          THEN <<PathStr(Head(opts).path)>> ELSE <<>>)
         \o IncludeDirsGiven(Tail(opts))

LibDirsOf(i) ==
    CASE i.kind = "lib_dir" -> <<PathStr(i.path)>>
      [] i.kind = "lib" ->
            LET dirs == IF tool = "MsvcLinker"
                        THEN MsvcLibDir(i.library,
                                IF mode = "pkg-config" THEN "cc" ELSE "msvc")
                        ELSE CcLibDir(env, i.library, mode # "pkg-config")
            IN [k \in 1..Len(dirs.flags) |-> PathStr(dirs.flags[k])]
      [] OTHER -> <<>>

RECURSIVE LibDirsGiven(_)
LibDirsGiven(opts) ==
    IF opts = <<>> THEN <<>>
    ELSE LibDirsOf(Head(opts)) \o LibDirsGiven(Tail(opts))

\* A sequence with every repeat of an earlier element dropped.
RECURSIVE FirstOccurrences(_)
FirstOccurrences(seq) ==
    IF seq = <<>> THEN <<>>
    ELSE LET front == FirstOccurrences(SubSeq(seq, 1, Len(seq) - 1))
             last == seq[Len(seq)]
         IN IF Contains(front, last) THEN front ELSE Append(front, last)

Compilers == {"CcCompiler", "MsvcCompiler"}
Linkers == {"CcLinker", "CcSharedLibraryLinker", "MsvcLinker"}

\* C2 (as stated): the include-directory flags and the library-directory
\* flags each hold each directory at most once, in the order of its first
\* occurrence in the option list.
C2_DirsOnceEach ==
    (pc = "done" /\ result.err = "none") =>
        /\ tool \in Compilers =>
            IncludeArgs(result.flags)
                = FirstOccurrences(IncludeDirsGiven(options))
        /\ tool \in Linkers =>
            LibDirArgs(result.flags)
                = FirstOccurrences(LibDirsGiven(options))

\* C2 (amended): the library-directory flags hold each directory at most
\* once, in the order of its first occurrence; the include-directory flags
\* are not deduplicated: every include_dir option yields its own flag, in
\* option order.
C2_LibDirsOnceIncludeDirsAll ==
    (pc = "done" /\ result.err = "none") =>
        /\ tool \in Compilers =>
            IncludeArgs(result.flags) = IncludeDirsGiven(options)
        /\ tool \in Linkers =>
            LibDirArgs(result.flags)
                = FirstOccurrences(LibDirsGiven(options))

\* C2's case: a cc linker given the same library directory by its first and
\* third option, with another directory between them, emits two -L flags.
C2_RepeatedLibDir ==
    /\ pc = "done"
    /\ tool = "CcLinker"
    /\ result.err = "none"
    /\ Len(LibDirsGiven(options)) = 3
    /\ LibDirsGiven(options)[1] = LibDirsGiven(options)[3]
    /\ LibDirsGiven(options)[1] # LibDirsGiven(options)[2]
    /\ Len(LibDirArgs(result.flags)) = 2

RpathFlags == {"-Wl,-rpath,", "-Wl,-rpath-link,"}

\* C3: the cc linker emits -Wl,-rpath and -Wl,-rpath-link only when the
\* target's object format is elf or mach-o; for any other format (PE/COFF)
\* no such flag is emitted, whatever rpath_dir, rpath_link_dir or lib
\* options are given.
C3_RpathOnlyWhereSupported ==
    (/\ pc = "done"
     /\ tool \in {"CcLinker", "CcSharedLibraryLinker"}
     /\ env.platform.object_format \notin {"elf", "mach-o"}) =>
        \A k \in 1..Len(result.flags) : result.flags[k].flag \notin RpathFlags

\* C4 (as stated): every translator, the cc shared-library linker included,
\* returns the empty flag list for the empty option list, whatever the
\* output and the mode.
C4_EmptyOptionsEmptyFlags ==
    (pc = "done" /\ options = <<>>) => result = Returned(<<>>)

\* C4 (amended): for the empty option list no translator raises, and every
\* translator returns the empty flag list, except the cc shared-library
\* linker called with an output: it returns the output's soname flag
\* (-install_name and the library's path on darwin).
C4_EmptyOptionsOnlySoname ==
    (pc = "done" /\ options = <<>>) =>
        /\ result.err = "none"
        /\ IF tool = "CcSharedLibraryLinker" /\ output # NoOutput
           THEN IF env.platform.genus = "darwin"
                THEN result.flags = <<Tok("-install_name", ""),
                                      Tok("", PathStr(output.path))>>
                ELSE result.flags =
                       <<Tok("-Wl,-soname,",
                             output.path.suffix[Len(output.path.suffix)])>>
           ELSE result.flags = <<>>

\* C4's case: the shared-library linker called on the empty list with an
\* output.
C4_EmptySharedWithOutput ==
    /\ pc = "done"
    /\ options = <<>>
    /\ tool = "CcSharedLibraryLinker"
    /\ output # NoOutput
    /\ result.err = "none"

(***************************************************************************)
(* Exceptions, and the outcome of a call that makes subprocess queries.    *)
(***************************************************************************)
\* The classes an exception of class err is an instance of.  Python's
\* FileNotFoundError is an OSError; a version-constraint failure is a kind
\* of its own, distinct from the not-found resolution error.
Bases(err) ==
    CASE err = "FileNotFoundError" -> {"FileNotFoundError", "OSError"}
      [] OTHER -> {err}

\* except (classes): does the clause catch err?
Catches(classes, err) == Bases(err) \cap classes # {}

Ok(val, trace) == [err |-> "none", msg |-> "", val |-> val, calls |-> trace]
Err(err, msg, trace) == [err |-> err, msg |-> msg, val |-> <<>>, calls |-> trace]

\* b run after a: a's exception ends the sequence, else b's outcome with
\* both traces.
Then(a, b) ==
    IF a.err # "none" THEN a ELSE [b EXCEPT !.calls = a.calls \o @]

(***************************************************************************)
(* versioning.check_version, with versions as numbers and a specifier as   *)
(* the least version it admits (0 admits every version).                   *)
(***************************************************************************)
MaxVersion == 2
Versions == 1..MaxVersion
NoVersion == 0
Specifiers == {NoVersion, MaxVersion}

Satisfies(version, specifier) == version >= specifier

(***************************************************************************)
(* tools/conan.py: parse_build_info.  A line of the file is blank, a       *)
(* [section] header, a header with no closing bracket, the header "[]",    *)
(* or text.                                                                *)
(***************************************************************************)
Line(kind, text) == [kind |-> kind, text |-> text]

RECURSIVE ParseLines(_, _, _, _)
ParseLines(lines, section, in_section, acc) ==
    IF lines = <<>> THEN Ok(acc, <<>>)
    ELSE LET line == Head(lines)
         IN CASE line.kind = "blank" ->
                    ParseLines(Tail(lines), section, in_section, acc)
              [] line.kind = "unclosed" ->
                    Err("ValueError", "expected ']' at end of line", <<>>)
              [] line.kind = "empty_section" ->
                    Err("ValueError", "expected section name", <<>>)
              [] line.kind = "section" ->
                    IF in_section THEN Ok(acc, <<>>)
                    ELSE ParseLines(Tail(lines), section,
                                    section = line.text, acc)
              [] OTHER ->
                    ParseLines(Tail(lines), section, in_section,
                               IF in_section THEN Append(acc, line.text)
                               ELSE acc)

parse_build_info(file, section) == ParseLines(file, section, FALSE, <<>>)

(***************************************************************************)
(* tools/pkg_config.py                                                     *)
(***************************************************************************)
\* PkgConfig.run(name, type): the executable is missing, or the query exits
\* non-zero, or it prints out.
PkgConfigRun(w, type, out) ==
    LET call == <<"pkg-config " \o type>>
    IN IF ~w.pkg_config.which
       THEN Err("FileNotFoundError", "pkg-config", call)
       ELSE IF type \in w.pkg_config.fails
       THEN Err("CalledProcessError", "pkg-config " \o type, call)
       ELSE Ok(out, call)

_check_version(w, name, specifier) ==
    LET run == PkgConfigRun(w, "version", w.pkg_config.modversion)
    IN IF run.err = "CalledProcessError"
       THEN Err("PackageResolutionError",
                "unable to find package '" \o name \o "'", run.calls)
       ELSE IF run.err # "none" THEN run
       ELSE IF ~Satisfies(run.val, specifier)
       THEN Err("PackageVersionError",
                "version of package '" \o name \o "' does not match",
                run.calls)
       ELSE run

_is_conan(w, name) ==
    LET run == PkgConfigRun(w, "prefix", w.pkg_config.prefix)
        opened == Append(run.calls, "open conanbuildinfo.txt")
        parsed == parse_build_info(w.conanbuildinfo.lines,
                                   "rootpath_" \o name)
    IN IF run.err # "none" THEN run
       ELSE IF ~w.conanbuildinfo.exists
       THEN Err("FileNotFoundError", "conanbuildinfo.txt", opened)
       ELSE IF parsed.err # "none" THEN Err(parsed.err, parsed.msg, opened)
       ELSE IF parsed.val = <<>>
       THEN Err("IndexError", "list index out of range", opened)
       ELSE Ok(run.val = parsed.val[1], opened)

\* A resolved package: a PkgConfigPackage or ConanPkgConfigPackage (its
\* options are queried lazily), or a CommonPackage with its option lists.
Package(type, name, format, version, static, compile_options, link_options) ==
    [type |-> type, name |-> name, format |-> format, version |-> version,
     static |-> static, compile_options |-> compile_options,
     link_options |-> link_options]

NoPackage == Package("none", "", "", NoVersion, FALSE, <<>>, <<>>)

\* pkg_config.resolve(env, name, format, version, kind)
PkgConfigResolve(w, name, format, version, kind) ==
    LET found == _check_version(w, name, version)
        conan == Then(found, _is_conan(w, name))
        path == Then(conan, PkgConfigRun(w, "path", w.pkg_config.pcfiledir))
    IN IF path.err # "none" THEN path
       ELSE Ok(Package(IF conan.val THEN "ConanPkgConfigPackage"
                       ELSE "PkgConfigPackage",
                       name, format, found.val, kind = "static", <<>>, <<>>),
               path.calls)

\* The positional parameters resolve() takes: env, name, format, version,
\* kind.
PkgConfigResolveMaxArgs == 5

\* A call of pkg_config.resolve with the positional arguments args (the
\* env first).
PkgConfigResolveCall(w, args) ==
    IF Len(args) > PkgConfigResolveMaxArgs
    THEN Err("TypeError",
             "resolve() takes from 3 to 5 positional arguments", <<>>)
    ELSE PkgConfigResolve(w, args[2], args[3], args[4], args[5])

(***************************************************************************)
(* tools/mopack.py: try_usage                                              *)
(***************************************************************************)
Usage(type, pcfiles, headers, libraries) ==
    [type |-> type, pcfiles |-> pcfiles, path |-> "mopack/pkgconfig",
     headers |-> headers, libraries |-> libraries]

\* A try_usage whose default record would be of type 'path'.
TryUsageDefaultPath(w, name) ==
    IF Catches({"OSError", "CalledProcessError"}, w.mopack.err)
    THEN Ok(Usage("path", <<>>, <<>>, <<name>>), <<"mopack usage">>)
    ELSE Ok(w.mopack.usage, <<"mopack usage">>)

\* mopack.try_usage(env, name, submodules)
try_usage(w, name) ==
    IF Catches({"OSError", "CalledProcessError"}, w.mopack.err)
    THEN Ok(Usage("system", <<>>, <<>>, <<name>>), <<"mopack usage">>)
    ELSE Ok(w.mopack.usage, <<"mopack usage">>)

(***************************************************************************)
(* tools/cc.py: CcPackageResolver; tools/msvc.py: MsvcPackageResolver      *)
(***************************************************************************)
\* A resolver: its family, its builder's language and target platform.
Resolver(name, family, lang, platform) ==
    [name |-> name, family |-> family, lang |-> lang, platform |-> platform]

\* The directories the resolver's constructor keeps: the host platform's,
\* the compiler and linker reporting none of their own.
ResolverIncludeDirs == HostIncludeDirs
ResolverLibDirs == HostLibDirs

File(dir, name) == [dir |-> dir, name |-> name]
exists(w, dir, name) == File(dir, name) \in w.files

RECURSIVE SearchHeader(_, _, _)
SearchHeader(w, name, dirs) ==
    IF dirs = <<>>
    THEN Err("PackageResolutionError",
             "unable to find header '" \o name \o "'", <<>>)
    ELSE IF Head(dirs).root # "absolute"
    THEN Err("ValueError", "expected an absolute path", <<>>)
    ELSE IF exists(w, Head(dirs), name) THEN Ok(Head(dirs), <<>>)
    ELSE SearchHeader(w, name, Tail(dirs))

\* CcPackageResolver.header / MsvcPackageResolver.header
header(w, name, search_dirs) ==
    [SearchHeader(w, name, IF search_dirs = <<>> THEN ResolverIncludeDirs
                           ELSE search_dirs)
        EXCEPT !.calls = <<"header " \o name>>]

\* The file names library() tries in one directory, in order.
LibName(file, type) == [file |-> file, type |-> type]

CcLibNames(r, name, kind) ==
    (IF kind \in {"any", "shared"}
     THEN IF r.platform.has_import_library
          THEN <<LibName(FileName("lib", name,
                                  r.platform.shared_library_ext \o ".a"),
                         "LinkLibrary")>>
          ELSE <<LibName(FileName("lib", name,
                                  r.platform.shared_library_ext),
                         "SharedLibrary")>>
     ELSE <<>>)
    \o (IF kind \in {"any", "static"}
        THEN <<LibName(FileName("lib", name, ".a"), "StaticLibrary")>>
        ELSE <<>>)
    \o (IF r.platform.family = "windows"
        THEN <<LibName(FileName("", name, ".lib"), "Library")>>
        ELSE <<>>)

MsvcLibNames(r, name, kind) ==
    <<LibName(FileName("", name, ".lib"), "Library")>>

RECURSIVE FirstExisting(_, _, _)
FirstExisting(w, base, libnames) ==
    IF libnames = <<>> THEN NoLib
    ELSE IF exists(w, base, BaseNameStr(Head(libnames).file))
    THEN Lib(Head(libnames).type, base, Head(libnames).file, FALSE,
             Head(libnames).type = "SharedLibrary", <<>>)
    ELSE FirstExisting(w, base, Tail(libnames))

RECURSIVE SearchLibrary(_, _, _, _)
SearchLibrary(w, name, libnames, dirs) ==
    IF dirs = <<>>
    THEN Err("PackageResolutionError",
             "unable to find library '" \o name \o "'", <<>>)
    ELSE IF Head(dirs).root # "absolute"
    THEN Err("ValueError", "expected an absolute path", <<>>)
    ELSE IF FirstExisting(w, Head(dirs), libnames) # NoLib
    THEN Ok(FirstExisting(w, Head(dirs), libnames), <<>>)
    ELSE SearchLibrary(w, name, libnames, Tail(dirs))

\* A search that would go through the directories for the first file name
\* before trying the next name.
RECURSIVE SearchLibraryNameFirst(_, _, _, _)
SearchLibraryNameFirst(w, name, libnames, dirs) ==
    IF libnames = <<>>
    THEN Err("PackageResolutionError",
             "unable to find library '" \o name \o "'", <<>>)
    ELSE LET found == SearchLibrary(w, name, <<Head(libnames)>>, dirs)
         IN IF found.err = "none" THEN found
            ELSE SearchLibraryNameFirst(w, name, Tail(libnames), dirs)

LibraryNameFirst(w, r, name, kind, search_dirs) ==
    [SearchLibraryNameFirst(w, name,
                   IF r.family = "msvc" THEN MsvcLibNames(r, name, kind)
                   ELSE CcLibNames(r, name, kind),
                   IF search_dirs = <<>> THEN ResolverLibDirs
                   ELSE search_dirs)
        EXCEPT !.calls = <<"library " \o name>>]

\* CcPackageResolver.library / MsvcPackageResolver.library
library(w, r, name, kind, search_dirs) ==
    [SearchLibrary(w, name,
                   IF r.family = "msvc" THEN MsvcLibNames(r, name, kind)
                   ELSE CcLibNames(r, name, kind),
                   IF search_dirs = <<>> THEN ResolverLibDirs
                   ELSE search_dirs)
        EXCEPT !.calls = <<"library " \o name>>]

\* A version callback that would return what it reads without comparing it
\* with the constraint.
BoostVersionUnchecked(w, headers, required_version) ==
    IF headers = <<>> \/ w.boost_version = NoVersion
    THEN Err("PackageVersionError", "unable to parse \"boost/version.hpp\"",
             <<"get_version">>)
    ELSE Ok(w.boost_version, <<"get_version">>)

\* builtins/packages.py: _boost_version over the header directories found.
\* Every header directory of this model holds boost/version.hpp, whose
\* BOOST_LIB_VERSION line gives w.boost_version (NoVersion: no such line).
_boost_version(w, headers, required_version) ==
    IF headers = <<>> \/ w.boost_version = NoVersion
    THEN Err("PackageVersionError", "unable to parse \"boost/version.hpp\"",
             <<"get_version">>)
    ELSE IF ~Satisfies(w.boost_version, required_version)
    THEN Err("PackageVersionError",
             "version of package 'boost' does not match", <<"get_version">>)
    ELSE Ok(w.boost_version, <<"get_version">>)

\* The compile and link options _resolve_path has gathered.
PathOptions(compile_options, link_options) ==
    [compile_options |-> compile_options, link_options |-> link_options]

\* compile_options.extend(include_dir(self.header(i, include_path)) ...)
RECURSIVE FindHeaders(_, _, _)
FindHeaders(w, headers, acc) ==
    IF headers = <<>> \/ acc.err # "none" THEN acc
    ELSE LET h == header(w, Head(headers), <<>>)
         IN FindHeaders(w, Tail(headers),
                IF h.err # "none" THEN Err(h.err, h.msg, acc.calls \o h.calls)
                ELSE Ok(Append(acc.val, include_dir(h.val, TRUE)),
                        acc.calls \o h.calls))

\* The loop of CcPackageResolver._resolve_path over the libraries.
RECURSIVE CcFindLibraries(_, _, _, _, _)
CcFindLibraries(w, r, libraries, kind, acc) ==
    IF libraries = <<>> \/ acc.err # "none" THEN acc
    ELSE LET i == Head(libraries)
             found == library(w, r, i, kind, <<>>)
             next ==
                IF i = "pthread"
                THEN Ok(PathOptions(
                            Append(acc.val.compile_options, Opt("pthread")),
                            Append(acc.val.link_options, Opt("pthread"))),
                        acc.calls)
                ELSE IF found.err # "none"
                THEN Err(found.err, found.msg, acc.calls \o found.calls)
                ELSE Ok(PathOptions(acc.val.compile_options,
                            Append(acc.val.link_options, lib(found.val))),
                        acc.calls \o found.calls)
         IN CcFindLibraries(w, r, Tail(libraries), kind, next)

\* link_options of MsvcPackageResolver._resolve_path without auto-link
RECURSIVE MsvcFindLibraries(_, _, _, _, _)
MsvcFindLibraries(w, r, libraries, kind, acc) ==
    IF libraries = <<>> \/ acc.err # "none" THEN acc
    ELSE LET found == library(w, r, Head(libraries), kind, <<>>)
             next ==
                IF found.err # "none"
                THEN Err(found.err, found.msg, acc.calls \o found.calls)
                ELSE Ok(PathOptions(acc.val.compile_options,
                            Append(acc.val.link_options, lib(found.val))),
                        acc.calls \o found.calls)
         IN MsvcFindLibraries(w, r, Tail(libraries), kind, next)

\* found_ver = get_version(header_dirs, version) if get_version
GetVersion(w, req, compile_options) ==
    IF req.get_version = "none" THEN Ok(NoVersion, <<>>)
    ELSE _boost_version(w,
            SelectSeq(compile_options, LAMBDA i : i.kind = "include_dir"),
            req.version)

\* A fallback that would search for the library named after the package,
\* whatever the usage lists.
ResolvePathByName(w, r, req, format, usage) ==
    LET found == library(w, r, req.name, req.kind, <<>>)
    IN IF found.err # "none" THEN found
       ELSE Ok(Package("CommonPackage", req.name, format, NoVersion, FALSE,
                       <<>>, <<lib(found.val)>>), found.calls)

\* CcPackageResolver._resolve_path / MsvcPackageResolver._resolve_path
ResolvePath(w, r, req, format, usage) ==
    LET hdrs == FindHeaders(w, usage.headers, Ok(<<>>, <<>>))
        start == Ok(PathOptions(hdrs.val, <<>>), hdrs.calls)
        libs == IF hdrs.err # "none" THEN hdrs
                ELSE IF r.family = "msvc"
                THEN IF req.can_auto_link THEN start
                     ELSE MsvcFindLibraries(w, r, usage.libraries, req.kind,
                                            start)
                ELSE CcFindLibraries(w, r, usage.libraries, req.kind, start)
        ver == IF libs.err # "none" THEN libs
               ELSE Then(libs, GetVersion(w, req, libs.val.compile_options))
    IN IF ver.err # "none" THEN ver
       ELSE Ok(Package("CommonPackage", req.name, format, ver.val, FALSE,
                       libs.val.compile_options, libs.val.link_options),
               ver.calls)

\* CcPackageResolver.resolve / MsvcPackageResolver.resolve
Resolve(w, r, req) ==
    LET format == r.platform.object_format
        u == try_usage(w, req.name)
        usage == u.val
        first == PkgConfigResolveCall(w,
                    <<"env", req.name, format, req.version, req.kind>>)
    IN CASE usage.type = "pkg-config" ->
                IF Len(usage.pcfiles) # 1
                THEN Err("PackageResolutionError",
                         "only one pkg-config file currently supported",
                         u.calls)
                ELSE Then(u, PkgConfigResolveCall(w,
                        <<"env", usage.pcfiles[1], format, req.version,
                          req.kind, usage.path>>))
         [] usage.type = "path" ->
                Then(u, ResolvePath(w, r, req, format, usage))
         [] usage.type = "system" ->
                IF Catches({"OSError", "PackageResolutionError"}, first.err)
                THEN Then(u, [ResolvePath(w, r, req, format, usage)
                                EXCEPT !.calls = first.calls \o @])
                ELSE Then(u, first)
         [] OTHER ->
                Err("PackageResolutionError",
                    "unsupported package usage " \o usage.type, u.calls)

(***************************************************************************)
(* Package resolution as a state machine: one call of the package() or     *)
(* boost_package() builtin, or of pkg_config.resolve(), in an environment  *)
(* that fixes what mopack and pkg-config answer and which files exist.     *)
(***************************************************************************)
MaxPcFiles == 2

PackageKinds == {"any", "shared", "static"}

Resolvers ==
    { Resolver("CcPackageResolver", "cc", "c++", LinuxTarget),
      Resolver("MsvcPackageResolver", "msvc", "c++", WindowsTarget) }

\* What pkg-config answers: the executable found or not, the queries that
\* exit non-zero, and the output of the others.
PkgConfigState(which, fails, modversion) ==
    [which |-> which, fails |-> fails, modversion |-> modversion,
     prefix |-> "/opt/pkg", pcfiledir |-> "/opt/pkg/lib/pkgconfig"]

NoConanBuildInfo == [exists |-> FALSE, lines |-> <<>>]
ConanBuildInfo(lines) == [exists |-> TRUE, lines |-> lines]

ConanBuildInfos(name) ==
    { NoConanBuildInfo,
      ConanBuildInfo(<<Line("section", "includedirs"), Line("text", "/inc"),
                       Line("blank", ""),
                       Line("section", "rootpath_" \o name),
                       Line("text", "/opt/pkg"),
                       Line("section", "libdirs"), Line("text", "/lib")>>),
      ConanBuildInfo(<<Line("section", "rootpath_" \o name),
                       Line("text", "/conan/data")>>),
      ConanBuildInfo(<<Line("section", "rootpath_other"),
                       Line("text", "/opt/pkg")>>),
      ConanBuildInfo(<<Line("unclosed", "rootpath_" \o name)>>),
      ConanBuildInfo(<<Line("empty_section", "")>>) }

\* pkg-config and conanbuildinfo.txt together; what no query can reach is
\* held fixed.
PkgConfigMissing ==
    [pkg_config |-> PkgConfigState(FALSE, {}, 1),
     conanbuildinfo |-> NoConanBuildInfo]

PkgConfigWorlds(name) ==
    {PkgConfigMissing}
    \cup {[pkg_config |-> PkgConfigState(TRUE, {"version"}, 1),
           conanbuildinfo |-> NoConanBuildInfo]}
    \cup {[pkg_config |-> PkgConfigState(TRUE, {"prefix"}, v),
           conanbuildinfo |-> NoConanBuildInfo] : v \in Versions}
    \cup {[pkg_config |-> PkgConfigState(TRUE, fails, v),
           conanbuildinfo |-> c] :
            fails \in {{}, {"path"}}, v \in Versions,
            c \in ConanBuildInfos(name)}

\* What mopack answers: it cannot be run, or a usage record.
MopackFailure(err) == [err |-> err, usage |-> Usage("none", <<>>, <<>>, <<>>)]
MopackMissing == MopackFailure("FileNotFoundError")
MopackFails == {MopackMissing, MopackFailure("CalledProcessError")}

HeaderOf(name) == IF name = "boost" THEN "boost/version.hpp" ELSE name \o ".h"

PcFileLists(name) == UNION {[1..k -> {name}] : k \in 0..MaxPcFiles}
HeaderLists(name) == {<<>>, <<HeaderOf(name)>>}
LibraryLists(name) == {<<>>, <<name>>, <<"pthread">>}

SearchUsages(type, name) ==
    {Usage(type, <<>>, h, l) : h \in HeaderLists(name), l \in LibraryLists(name)}

\* The files that may exist for a resolver to find.
FilePool(r, name) ==
    {File(HostIncludeDirs[2], HeaderOf(name))}
    \cup (IF r.family = "msvc"
          THEN {File(HostLibDirs[3], name \o ".lib")}
          ELSE {File(HostLibDirs[3], "lib" \o name \o ".so"),
                File(HostLibDirs[1], "lib" \o name \o ".a")})

BoostVersions(files, get_version) ==
    IF get_version = "none" \/ files = {} THEN {NoVersion}
    ELSE {NoVersion} \cup Versions

World(mopack, pkgconf, files, boost_version) ==
    [mopack |-> mopack, pkg_config |-> pkgconf.pkg_config,
     conanbuildinfo |-> pkgconf.conanbuildinfo, files |-> files,
     boost_version |-> boost_version]

\* The environments of a resolver call: by what mopack reports, with the
\* parts the reported usage type never consults held fixed.
DelegatingWorlds(name) ==
    {World([err |-> "none", usage |-> u], p, {}, NoVersion) :
        u \in {Usage("pkg-config", f, <<>>, <<>>) : f \in PcFileLists(name)}
              \cup {Usage("conan", <<>>, <<>>, <<>>)},
        p \in PkgConfigWorlds(name)}

PathWorlds(r, name, get_version) ==
    UNION {{World([err |-> "none", usage |-> u], PkgConfigMissing, f, b) :
                b \in BoostVersions(f, get_version)} :
            u \in SearchUsages("path", name), f \in SUBSET FilePool(r, name)}

SystemWorlds(r, name, get_version) ==
    UNION {{World(m, p, f, b) : b \in BoostVersions(f, get_version)} :
            m \in MopackFails
                  \cup [err : {"none"}, usage : SearchUsages("system", name)],
            p \in PkgConfigWorlds(name), f \in SUBSET FilePool(r, name)}

Worlds(r, name, get_version) ==
    DelegatingWorlds(name) \cup PathWorlds(r, name, get_version)
        \cup SystemWorlds(r, name, get_version)

Request(name, version, kind, get_version, can_auto_link) ==
    [name |-> name, version |-> version, kind |-> kind,
     get_version |-> get_version, can_auto_link |-> can_auto_link]

\* The result of a resolution call: the package, or the exception.
Resolved(out) ==
    [err |-> out.err, msg |-> out.msg,
     package |-> IF out.err = "none" THEN out.val ELSE NoPackage]

InitResolve ==
    /\ pc = "idle"
    /\ tool = "none"
    /\ env = World(MopackMissing, PkgConfigMissing, {}, NoVersion)
    /\ options = <<>>
    /\ output = NoOutput
    /\ mode = "normal"
    /\ result = Resolved(Ok(NoPackage, <<>>))
    /\ request = NoRequest
    /\ calls = <<>>
    /\ cache = {}

ResolveCall(t, w, req, out) ==
    /\ pc' = "done"
    /\ tool' = t
    /\ env' = w
    /\ request' = req
    /\ result' = Resolved(out)
    /\ calls' = out.calls
    /\ UNCHANGED <<options, output, mode, cache>>

\* builtins/packages.py: package(name, version, lang, kind)
package ==
    /\ pc = "idle"
    /\ \E r \in Resolvers, version \in Specifiers, kind \in PackageKinds :
        \E w \in Worlds(r, "foo", "none") :
            LET req == Request("foo", version, kind, "none", FALSE)
            IN ResolveCall(r.name, w, req, Resolve(w, r, req))

\* builtins/packages.py: boost_package(name, version)
boost_package ==
    /\ pc = "idle"
    /\ \E r \in Resolvers, version \in Specifiers :
        \E w \in Worlds(r, "boost", "_boost_version") :
            LET req == Request("boost", version, "any", "_boost_version",
                               r.platform.family = "windows")
            IN ResolveCall(r.name, w, req, Resolve(w, r, req))

\* tools/pkg_config.py: resolve(env, name, format, version, kind)
pkg_config_resolve ==
    /\ pc = "idle"
    /\ \E p \in PkgConfigWorlds("foo"), version \in Specifiers,
          kind \in PackageKinds :
        LET w == World(MopackMissing, p, {}, NoVersion)
            req == Request("foo", version, kind, "none", FALSE)
        IN ResolveCall("pkg_config.resolve", w, req,
                       PkgConfigResolve(w, "foo", "elf", version, kind))

NextResolve ==
    \/ package
    \/ boost_package
    \/ pkg_config_resolve

SpecResolve == InitResolve /\ [][NextResolve]_vars

(***************************************************************************)
(* Properties of package resolution (checked under SpecResolve)            *)
(***************************************************************************)
ResolverCalled == pc = "done" /\ tool \in {r.name : r \in Resolvers}

\* The resolver that was called.
TheResolver == CHOOSE r \in Resolvers : r.name = tool

\* The usage record the call went by, and what the two strategies give in
\* the call's environment.
ReportedUsage == try_usage(env, request.name).val

PkgConfigAttempt ==
    PkgConfigResolve(env, request.name, TheResolver.platform.object_format,
                     request.version, request.kind)

PathSearch ==
    ResolvePath(env, TheResolver, request,
                TheResolver.platform.object_format, ReportedUsage)

\* The pkg-config attempt failed in a subprocess: the executable is
\* missing, the package lookup failed, or a later query exited non-zero.
SubprocessFailure ==
    \/ ~env.pkg_config.which
    \/ PkgConfigAttempt.err \in {"PackageResolutionError", "CalledProcessError"}

\* The call fell back from pkg-config to the path search.
FellBack ==
    /\ ResolverCalled
    /\ ReportedUsage.type = "system"
    /\ Catches({"OSError", "PackageResolutionError"}, PkgConfigAttempt.err)

Range(seq) == {seq[k] : k \in 1..Len(seq)}

\* C5: under usage type 'system', resolve() queries pkg-config first and
\* returns its package when it succeeds; whenever the attempt fails in a
\* subprocess (executable missing, lookup failing, any query failing) it
\* returns the outcome of the path search, and the failure is not
\* propagated.
C5_SystemFallsBackOnAnyFailure ==
    (ResolverCalled /\ ReportedUsage.type = "system") =>
        /\ Len(calls) >= 2 /\ calls[2] = "pkg-config version"
        /\ PkgConfigAttempt.err = "none" => result = Resolved(PkgConfigAttempt)
        /\ SubprocessFailure => result = Resolved(PathSearch)

PkgConfigVersionUnsatisfied ==
    /\ env.pkg_config.which
    /\ "version" \notin env.pkg_config.fails
    /\ ~Satisfies(env.pkg_config.modversion, request.version)

\* The path search finds every header and library, and the version callback
\* reads a version the request does not admit.
PathVersionUnsatisfied ==
    /\ request.get_version # "none"
    /\ ReportedUsage.headers # <<>>
    /\ env.boost_version # NoVersion
    /\ ~Satisfies(env.boost_version, request.version)
    /\ PathSearch.err \notin {"PackageResolutionError", "ValueError"}

\* A strategy of the call finds the package, in a version the request does
\* not admit.
VersionUnsatisfied ==
    \/ /\ ReportedUsage.type = "pkg-config"
       /\ Len(ReportedUsage.pcfiles) = 1
       /\ PkgConfigVersionUnsatisfied
    \/ /\ ReportedUsage.type = "system"
       /\ PkgConfigVersionUnsatisfied
    \/ /\ ReportedUsage.type = "path"
       /\ PathVersionUnsatisfied
    \/ /\ FellBack
       /\ PathVersionUnsatisfied

\* C7: for every usage type, when a strategy finds the package in a version
\* that does not satisfy the requested constraint, resolve() ends with the
\* version-mismatch error; under 'system' a pkg-config mismatch is not
\* replaced by the path search's result.
C7_VersionFailureSurfaced ==
    (ResolverCalled /\ VersionUnsatisfied) =>
        result.err = "PackageVersionError"

\* C8: under usage type 'pkg-config', more than one .pc file is a package
\* resolution error, and exactly one makes resolve() return what the
\* pkg-config adapter gives for that file, with no path search.
C8_PkgConfigUsageDelegates ==
    (ResolverCalled /\ ReportedUsage.type = "pkg-config") =>
        /\ Len(ReportedUsage.pcfiles) > 1 =>
              result.err = "PackageResolutionError"
        /\ Len(ReportedUsage.pcfiles) = 1 =>
              /\ result = Resolved(PkgConfigResolve(env,
                            ReportedUsage.pcfiles[1],
                            TheResolver.platform.object_format,
                            request.version,
                            request.kind))
              /\ \A k \in 1..Len(calls) :
                    calls[k] \in {"mopack usage", "pkg-config version",
                                  "pkg-config prefix", "pkg-config path",
                                  "open conanbuildinfo.txt"}

\* C10: when pkg-config finds the package and conanbuildinfo.txt is absent
\* from the build directory, pkg_config.resolve() returns an ordinary
\* PkgConfigPackage and does not raise.
C10_AbsentBuildInfoIsNotConan ==
    (/\ pc = "done"
     /\ tool = "pkg_config.resolve"
     /\ env.pkg_config.which
     /\ env.pkg_config.fails = {}
     /\ Satisfies(env.pkg_config.modversion, request.version)
     /\ ~env.conanbuildinfo.exists) =>
        /\ result.err = "none"
        /\ result.package.type = "PkgConfigPackage"

(***************************************************************************)
(* tools/common.py: choose_builder, and the constructors of the builders   *)
(* it picks from (CcBuilder, MsvcBuilder, JvmBuilder).                     *)
(***************************************************************************)
\* A constructed builder.
ChosenBuilder(type, lang, brand, command, target_flags) ==
    [type |-> type, lang |-> lang, brand |-> brand, command |-> command,
     target_flags |-> target_flags]

NoChosenBuilder == ChosenBuilder("none", "", "", "", <<>>)

\* env.execute(command + args): the error the subprocess ends with, or its
\* output.  A command that was not found cannot be executed.
Errors == {"FileNotFoundError", "CalledProcessError"}

Execute(w, probe) ==
    IF w.which = 0 THEN Err("FileNotFoundError", probe, <<probe>>)
    ELSE IF w.probes[probe] \in Errors
    THEN Err(w.probes[probe], probe, <<probe>>)
    ELSE Ok(w.probes[probe], <<probe>>)

\* CcBuilder._gcc_arch_flags; arches i686 and i386 match i.86
IsI86(arch) == arch \in {"i386", "i686"}

_gcc_arch_flags(arch, native_arch) ==
    IF arch = native_arch THEN <<>>
    ELSE IF arch = "x86_64" THEN <<"-m64">>
    ELSE IF IsI86(arch)
    THEN IF ~IsI86(native_arch) THEN <<"-m32">> ELSE <<>>
    ELSE <<>>

\* The banners a --version probe may print: gcc's, clang's, one naming
\* both, that of a compiler of neither brand, and nothing.
GccBanner == "gcc (Ubuntu 5.4.0-6ubuntu1~16.04.9) 5.4.0 Free Software Foundation"
ClangBanner == "clang version 3.8.0"
ClangFsfBanner == "clang-wrapper 9.1.0 Free Software Foundation"
TccBanner == "tcc version 0.9.27"

\* The banners of the JVM compilers: javac's, scalac's with and without
\* the EPFL copyright, and one with no version in it.
JavacBanner == "javac 1.7.0_55"
ScalaEpflBanner == "Scala compiler version 2.11.6 -- Copyright 2002-2013, LAMP/EPFL"
ScalaOtherBanner == "Scala compiler version 2.12.0"
NoVersionBanner == "unknown"

\* The banners of the java runtime.
OracleBanner == "Java(TM) Runtime Environment"
OracleSeBanner == "Java(TM) SE Runtime Environment"
OpenJdkBanner == "OpenJDK Runtime Environment"

\* text in version_output
BannerHas(version_output, text) ==
    CASE text = "Free Software Foundation" ->
            version_output \in {GccBanner, ClangFsfBanner}
      [] text = "clang" -> version_output \in {ClangBanner, ClangFsfBanner}
      [] text = "EPFL" -> version_output = ScalaEpflBanner
      [] text = "OpenJDK Runtime Environment" -> version_output = OpenJdkBanner
      [] OTHER -> FALSE

\* re.search(r'Java\(TM\) (\w+ )?Runtime Environment', output)
IsOracleRuntime(run_output) == run_output \in {OracleBanner, OracleSeBanner}

\* versioning.detect_version: the first version number of the text; "" for
\* None
detect_version(version_output) ==
    CASE version_output = GccBanner -> "5.4.0"
      [] version_output = ClangBanner -> "3.8.0"
      [] version_output = ClangFsfBanner -> "9.1.0"
      [] version_output = TccBanner -> "0.9.27"
      [] version_output = JavacBanner -> "1.7.0"
      [] version_output = ScalaEpflBanner -> "2.11.6"
      [] version_output = ScalaOtherBanner -> "2.12.0"
      [] OTHER -> ""

\* The triplet of a platform of an architecture, and parse_triplet(...).arch
TripletOf(arch) == arch \o "-linux-gnu"
TripletArch(triplet) ==
    CHOOSE arch \in {"x86_64", "i686", "i386", "aarch64", "arm"} :
        TripletOf(arch) = triplet

\* What _parse_brand returns; version "" stands for None.
Parsed(brand, version, target_flags) ==
    [brand |-> brand, version |-> version, target_flags |-> target_flags]

\* CcBuilder._parse_brand: brand, version and target flags from the banner
CcParseBrand(w, version_output) ==
    CASE BannerHas(version_output, "Free Software Foundation") ->
            IF w.is_cross
            THEN LET dump == Execute(w, "-dumpmachine")
                 IN IF dump.err # "none" THEN dump
                    ELSE Ok(Parsed("gcc", detect_version(version_output),
                                   _gcc_arch_flags(w.target_arch,
                                                   TripletArch(dump.val))),
                            dump.calls)
            ELSE Ok(Parsed("gcc", detect_version(version_output), <<>>), <<>>)
      [] BannerHas(version_output, "clang") ->
            Ok(Parsed("clang", detect_version(version_output),
                      IF w.is_cross THEN <<"-target", w.target_triplet>>
                      ELSE <<>>), <<>>)
      [] OTHER -> Ok(Parsed("unknown", "", <<>>), <<>>)

\* CcBuilder.__init__: the brand, then the link-editor probe, whose failure
\* is caught.
CcBuilderInit(w, lang, command, version_output) ==
    LET parsed == CcParseBrand(w, version_output)
    IN IF parsed.err # "none" THEN parsed
       ELSE Ok(ChosenBuilder("CcBuilder", lang, parsed.val.brand, command,
                             parsed.val.target_flags),
               parsed.calls \o <<"-v -Wl,--version">>)

\* MsvcBuilder._parse_brand and __init__
MsvcBuilderInit(w, lang, command, version_output) ==
    Ok(ChosenBuilder("MsvcBuilder", lang,
                     IF version_output = "Microsoft (R)" THEN "msvc"
                     ELSE "unknown",
                     command, <<>>), <<>>)

\* JvmBuilder._parse_brand: the runtime's banner names the brand of java
\* (a failing runtime probe is caught), the compiler's EPFL that of scala.
JvmParseBrand(w, lang, version_output) ==
    LET run == Execute(w, "java -version")
    IN IF lang = "java"
       THEN Ok(Parsed(IF run.err # "none" THEN "unknown"
                      ELSE IF IsOracleRuntime(run.val) THEN "oracle"
                      ELSE IF BannerHas(run.val, "OpenJDK Runtime Environment")
                      THEN "openjdk"
                      ELSE "unknown",
                      detect_version(version_output), <<>>),
               run.calls)
       ELSE IF BannerHas(version_output, "EPFL")
       THEN Ok(Parsed("epfl", detect_version(version_output), <<>>), <<>>)
       ELSE Ok(Parsed("unknown", "", <<>>), <<>>)

\* JvmBuilder.__init__
JvmBuilderInit(w, lang, command, version_output) ==
    LET parsed == JvmParseBrand(w, lang, version_output)
    IN Ok(ChosenBuilder("JvmBuilder", lang, parsed.val.brand, command, <<>>),
          parsed.calls)

\* builder_type(env, langinfo, cmd, output)
BuilderInit(type, w, lang, command, version_output) ==
    CASE type = "CcBuilder" -> CcBuilderInit(w, lang, command, version_output)
      [] type = "MsvcBuilder" ->
            MsvcBuilderInit(w, lang, command, version_output)
      [] OTHER -> JvmBuilderInit(w, lang, command, version_output)

\* builder_type.check_command(env, cmd): --version, /? or -version
CheckProbe(type) ==
    CASE type = "CcBuilder" -> "--version"
      [] type = "MsvcBuilder" -> "/?"
      [] OTHER -> "-version"

check_command(type, w) == Execute(w, CheckProbe(type))

\* The loop of choose_builder over the builder types: the first whose
\* check_command raises nothing, with its output and the probes made;
\* type "none" when every one raised.
RECURSIVE CheckBuilders(_, _, _)
CheckBuilders(w, builders, trace) ==
    IF builders = <<>> THEN [type |-> "none", output |-> "", calls |-> trace]
    ELSE LET out == check_command(Head(builders), w)
         IN IF out.err = "none"
            THEN [type |-> Head(builders), output |-> out.val,
                  calls |-> trace \o out.calls]
            ELSE CheckBuilders(w, Tail(builders), trace \o out.calls)

\* repr() of a command name
Repr(str) == "'" \o str \o "'"

\* The message of the IOError choose_builder raises
TriedMessage(lang, candidates) ==
    "no working " \o lang \o " compiler found; tried "
        \o JoinStr([k \in 1..Len(candidates) |-> Repr(candidates[k])], ", ")

choose_builder(w, lang, candidates, builders) ==
    LET checked == CheckBuilders(w, builders, <<"which">>)
    IN IF w.which = 0
       THEN Then(Ok(<<>>, <<"which">>),
                 BuilderInit(Head(builders), w, lang, candidates[1], ""))
       ELSE IF checked.type = "none"
       THEN Err("IOError", TriedMessage(lang, candidates), checked.calls)
       ELSE Then(Ok(<<>>, checked.calls),
                 BuilderInit(checked.type, w, lang, candidates[w.which],
                             checked.output))

(***************************************************************************)
(* Builder selection as a state machine: one call of choose_builder for a  *)
(* language, its candidate commands and its builder types.                 *)
(***************************************************************************)
MaxCandidates == 2

NativeCandidates == UNION {[1..k -> {"cc", "gcc"}] : k \in 1..MaxCandidates}
JvmCandidates == UNION {[1..k -> {"javac"}] : k \in 1..MaxCandidates}

CcBanners == {GccBanner, ClangBanner, ClangFsfBanner, TccBanner, ""}
MsvcBanners == {"Microsoft (R)", ""}
RuntimeBanners == {OracleBanner, OracleSeBanner, OpenJdkBanner, ""}
JvmBanners ==
    {JavacBanner, ScalaEpflBanner, ScalaOtherBanner, NoVersionBanner}
Arches == {"x86_64", "i686", "i386", "aarch64"}

\* What shell.which finds (0: none of the candidates) and what each probe of
\* the found command ends with.
Toolchain(which, probes, is_cross, target_arch) ==
    [which |-> which, probes |-> probes, is_cross |-> is_cross,
     target_arch |-> target_arch, target_triplet |-> TripletOf(target_arch)]

Probes(version, help, jversion, dumpmachine, runtime) ==
    [p \in {"--version", "/?", "-version", "-dumpmachine", "java -version"}
        |-> CASE p = "--version" -> version
              [] p = "/?" -> help
              [] p = "-version" -> jversion
              [] p = "-dumpmachine" -> dumpmachine
              [] OTHER -> runtime]

NoToolchain ==
    Toolchain(0, Probes("FileNotFoundError", "FileNotFoundError",
                        "FileNotFoundError", "FileNotFoundError",
                        "FileNotFoundError"), FALSE, "x86_64")

NativeToolchains(candidates) ==
    {NoToolchain}
    \cup {Toolchain(k, Probes(v, h, "CalledProcessError", d, "CalledProcessError"),
                    d # TripletOf("x86_64") \/ a # "x86_64", a) :
            k \in 1..Len(candidates),
            v \in Errors \cup CcBanners, h \in Errors \cup MsvcBanners,
            d \in Errors \cup {TripletOf(n) : n \in Arches}, a \in Arches}
    \cup {Toolchain(k, Probes(v, h, "CalledProcessError",
                              TripletOf("x86_64"), "CalledProcessError"),
                    TRUE, "x86_64") :
            k \in 1..Len(candidates),
            v \in Errors \cup CcBanners, h \in Errors \cup MsvcBanners}

JvmToolchains(candidates) ==
    {NoToolchain}
    \cup {Toolchain(k, Probes("CalledProcessError", "CalledProcessError", v,
                              "CalledProcessError", r), FALSE, "x86_64") :
            k \in 1..Len(candidates),
            v \in Errors \cup JvmBanners,
            r \in Errors \cup RuntimeBanners}

BuilderRequest(lang, candidates, builders) ==
    [lang |-> lang, candidates |-> candidates, builders |-> builders]

\* The result of builder selection: the builder, or the exception.
Chosen(out) ==
    [err |-> out.err, msg |-> out.msg,
     builder |-> IF out.err = "none" THEN out.val ELSE NoChosenBuilder]

InitBuilder ==
    /\ pc = "idle"
    /\ tool = "none"
    /\ env = NoToolchain
    /\ options = <<>>
    /\ output = NoOutput
    /\ mode = "normal"
    /\ result = Chosen(Ok(NoChosenBuilder, <<>>))
    /\ request = BuilderRequest("", <<>>, <<>>)
    /\ calls = <<>>
    /\ cache = {}

ChooseCall(w, req) ==
    LET out == choose_builder(w, req.lang, req.candidates, req.builders)
    IN /\ pc' = "done"
       /\ tool' = "choose_builder"
       /\ env' = w
       /\ request' = req
       /\ result' = Chosen(out)
       /\ calls' = out.calls
       /\ UNCHANGED <<options, output, mode, cache>>

\* choose_builder for a native language: cc family and msvc, either first
ChooseNativeBuilder ==
    /\ pc = "idle"
    /\ \E lang \in {"c", "c++"}, candidates \in NativeCandidates,
          builders \in {<<"CcBuilder", "MsvcBuilder">>,
                        <<"MsvcBuilder", "CcBuilder">>} :
        \E w \in NativeToolchains(candidates) :
            ChooseCall(w, BuilderRequest(lang, candidates, builders))

\* choose_builder for a JVM language
ChooseJvmBuilder ==
    /\ pc = "idle"
    /\ \E lang \in JvmLangs, candidates \in JvmCandidates :
        \E w \in JvmToolchains(candidates) :
            ChooseCall(w, BuilderRequest(lang, candidates, <<"JvmBuilder">>))

NextBuilder ==
    \/ ChooseNativeBuilder
    \/ ChooseJvmBuilder

SpecBuilder == InitBuilder /\ [][NextBuilder]_vars

(***************************************************************************)
(* Properties of builder selection (checked under SpecBuilder)             *)
(***************************************************************************)
\* A subprocess failed during identification: no candidate was found, or
\* the version probe failed for every builder type, or the -dumpmachine
\* query of a cross-compiling gcc failed.
IdentificationFailed ==
    \/ env.which = 0
    \/ \A k \in 1..Len(request.builders) :
            env.probes[CheckProbe(request.builders[k])] \in Errors
    \/ \E k \in 1..Len(calls) :
            calls[k] = "-dumpmachine" /\ env.probes["-dumpmachine"] \in Errors

\* C9: any subprocess error during toolchain identification ends builder
\* selection with the 'no working compiler found' failure listing every
\* candidate tried; no raw OS-level exception escapes and no builder is
\* returned.
C9_IdentificationFailureIsTyped ==
    (pc = "done" /\ tool = "choose_builder" /\ IdentificationFailed) =>
        /\ result.err = "IOError"
        /\ result.msg = TriedMessage(request.lang, request.candidates)
        /\ result.builder = NoChosenBuilder

(***************************************************************************)
(* tools/pkg_config.py: PkgConfigPackage, its memoized queries and the     *)
(* options it builds from them.                                            *)
(***************************************************************************)
\* opts.rpath_dual_dir: an rpath for the build and another once installed
rpath_dual_dir(dir, install_dir) ==
    [Opt("rpath_dual_dir") EXCEPT !.path = dir, !.text = PathStr(install_dir)]

\* The arguments of PkgConfigPackage._call after self: the package name, the
\* query type, and the static and msvc-syntax flags.
QueryKey(name, type, static, msvc_syntax) ==
    [name |-> name, type |-> type, static |-> static,
     msvc_syntax |-> msvc_syntax]

\* What a memoized call gives: its value, the cache after it and the
\* subprocess invocations it made.
Called(val, table, invoked) == [val |-> val, cache |-> table, calls |-> invoked]

\* A _call that would run pkg-config every time.
CallEveryTime(table, key, out) == Called(out, table, <<key>>)

\* objutils.memoize around PkgConfigPackage._call: the cached value of the
\* key when there is one, else the words `out` that pkg-config prints now.
_call(table, key, out) ==
    IF \E e \in table : e.key = key
    THEN Called((CHOOSE e \in table : e.key = key).val, table, <<>>)
    ELSE Called(out, table \cup {[key |-> key, val |-> out]}, <<key>>)

\* shell.split(..., type=opts.option_list): one string option per word
Words(out) == [k \in 1..Len(out) |-> literal(out[k].flag \o out[k].arg)]

\* PkgConfigPackage.compile_options
PkgCompileOptions(pkg, table, flavor, out) ==
    LET c == _call(table, QueryKey(pkg.name, "cflags", pkg.static,
                                   flavor = "msvc"), out)
    IN Called(Words(c.val), c.cache, c.calls)

\* PkgConfigPackage._make_rpath and ConanPkgConfigPackage._make_rpath
_make_rpath(pkg, dir) ==
    IF pkg.type = "ConanPkgConfigPackage"
    THEN rpath_dual_dir(dir, Path("libdir", <<>>))
    ELSE rpath_dir(dir, RpathAlways)

\* The -L arguments argparse collects from the lib_dirs words, as rpaths
PkgRpaths(pkg, dir_args) ==
    LET dirs == SelectSeq(dir_args, LAMBDA x : x.flag = "-L")
    IN [k \in 1..Len(dirs) |-> _make_rpath(pkg, Path("absolute", <<dirs[k].arg>>))]

\* A link_options that would generate the rpaths whatever the object format
\* and the kind of the package.
PkgLinkOptionsRpathsAlways(pkg, table, flavor, object_format, outs) ==
    LET msvc == flavor = "msvc"
        f == _call(table, QueryKey(pkg.name, "ldflags", pkg.static, msvc),
                   outs[1])
        l == _call(f.cache, QueryKey(pkg.name, "ldlibs", pkg.static, msvc),
                   outs[2])
        libs == [k \in 1..Len(l.val) |->
                    lib_literal(l.val[k].flag \o l.val[k].arg)]
        d == _call(l.cache, QueryKey(pkg.name, "lib_dirs", pkg.static, msvc),
                   outs[3])
    IN Called(Words(f.val) \o libs \o PkgRpaths(pkg, d.val), d.cache,
              f.calls \o l.calls \o d.calls)

\* PkgConfigPackage.link_options
PkgLinkOptions(pkg, table, flavor, object_format, outs) ==
    LET msvc == flavor = "msvc"
        f == _call(table, QueryKey(pkg.name, "ldflags", pkg.static, msvc),
                   outs[1])
        l == _call(f.cache, QueryKey(pkg.name, "ldlibs", pkg.static, msvc),
                   outs[2])
        libs == [k \in 1..Len(l.val) |->
                    lib_literal(l.val[k].flag \o l.val[k].arg)]
        d == _call(l.cache, QueryKey(pkg.name, "lib_dirs", pkg.static, msvc),
                   outs[3])
    IN IF object_format # "elf" \/ pkg.static
       THEN Called(Words(f.val) \o libs, l.cache, f.calls \o l.calls)
       ELSE Called(Words(f.val) \o libs \o PkgRpaths(pkg, d.val), d.cache,
                   f.calls \o l.calls \o d.calls)

(***************************************************************************)
(* One package object and the compile_options / link_options calls made on *)
(* it, as a state machine.                                                 *)
(***************************************************************************)
MaxQueries == 8

\* PkgConfigPackage.__init__: the package is static when its kind is
PkgConfigPackage(type, name, kind) ==
    [type |-> type, name |-> name, kind |-> kind, static |-> kind = "static"]

PkgObjects ==
    {PkgConfigPackage(t, "foo", kind) :
        t \in {"PkgConfigPackage", "ConanPkgConfigPackage"},
        kind \in PackageKinds}

\* What pkg-config may print for a query at the time it is run.
CflagsOutputs == {<<Tok("-D", "FOO"), Tok("-I", "/usr/include/foo")>>}
LdflagsOutputs == {<<Tok("-L", "/usr/lib")>>, <<Tok("-L", "/opt/lib")>>}
LdlibsOutputs == {<<Tok("-l", "foo")>>, <<Tok("-l", "foo"), Tok("-l", "m")>>}
LibDirsOutputs == {<<>>, <<Tok("-L", "/usr/lib"), Tok("-L", "/opt/lib")>>}

\* The compilers and linkers a package is asked for options by.
Flavors == {"cc", "msvc"}
LinkerKinds ==
    {[flavor |-> "cc", object_format |-> "elf"],
     [flavor |-> "cc", object_format |-> "mach-o"],
     [flavor |-> "msvc", object_format |-> "coff"]}

InitPkgConfig ==
    /\ pc = "package"
    /\ tool = "none"
    /\ env \in PkgObjects
    /\ options = <<>>
    /\ output = NoOutput
    /\ mode = "normal"
    /\ result = <<>>
    /\ request = [method |-> "none", flavor |-> "", object_format |-> "",
                  invoked |-> 0]
    /\ calls = <<>>
    /\ cache = {}

PkgCall(method, flavor, object_format, c) ==
    /\ Len(calls) + Len(c.calls) <= MaxQueries
    /\ pc' = "package"
    /\ tool' = "PkgConfigPackage"
    /\ request' = [method |-> method, flavor |-> flavor,
                   object_format |-> object_format,
                   invoked |-> Len(c.calls)]
    /\ result' = c.val
    /\ calls' = calls \o c.calls
    /\ cache' = c.cache
    /\ UNCHANGED <<env, options, output, mode>>

compile_options ==
    /\ pc = "package"
    /\ \E flavor \in Flavors, out \in CflagsOutputs :
        PkgCall("compile_options", flavor, "",
                PkgCompileOptions(env, cache, flavor, out))

link_options ==
    /\ pc = "package"
    /\ \E linker \in LinkerKinds, f \in LdflagsOutputs, l \in LdlibsOutputs,
          d \in LibDirsOutputs :
        PkgCall("link_options", linker.flavor, linker.object_format,
                PkgLinkOptions(env, cache, linker.flavor,
                               linker.object_format, <<f, l, d>>))

NextPkgConfig ==
    \/ compile_options
    \/ link_options

SpecPkgConfig == InitPkgConfig /\ [][NextPkgConfig]_vars

(***************************************************************************)
(* Properties of the package object (checked under SpecPkgConfig)          *)
(***************************************************************************)
\* The value the cache holds for a key.
Cached(key) == (CHOOSE e \in cache : e.key = key).val

\* What the last call returns when every query it needs is answered from
\* the cache.
FromCache ==
    LET msvc == request.flavor = "msvc"
        key(type) == QueryKey(env.name, type, env.static, msvc)
        libs == [k \in 1..Len(Cached(key("ldlibs"))) |->
                    lib_literal(Cached(key("ldlibs"))[k].flag
                                \o Cached(key("ldlibs"))[k].arg)]
    IN IF request.method = "compile_options"
       THEN Words(Cached(key("cflags")))
       ELSE IF request.object_format # "elf" \/ env.static
       THEN Words(Cached(key("ldflags"))) \o libs
       ELSE Words(Cached(key("ldflags"))) \o libs
                \o PkgRpaths(env, Cached(key("lib_dirs")))

\* C11: over any sequence of compile_options() and link_options() calls on
\* one package object, pkg-config is run at most once for each key (name,
\* query type, static flag, msvc-syntax flag), the lib_dirs query used for
\* the rpaths included; the value of the first run is what every later call
\* with that key is answered with.
C11_QueriesRunOncePerKey ==
    /\ \A j, k \in 1..Len(calls) : calls[j] = calls[k] => j = k
    /\ \A e1, e2 \in cache : e1.key = e2.key => e1 = e2
    /\ {calls[k] : k \in 1..Len(calls)} = {e.key : e \in cache}
    /\ (tool = "PkgConfigPackage") => result = FromCache

\* C11's case: an elf linker asks for link_options again after pkg-config
\* was run for its three queries; no query is run again and the rpaths of
\* the first lib_dirs answer are returned.
C11_LinkOptionsAnsweredFromCache ==
    /\ tool = "PkgConfigPackage"
    /\ request.method = "link_options"
    /\ request.object_format = "elf"
    /\ request.invoked = 0
    /\ ~env.static
    /\ Len(calls) = 3
    /\ \E k \in 1..3 : calls[k].type = "lib_dirs"
    /\ \E k \in 1..Len(result) : result[k].kind = "rpath_dir"

\* The words the package's query of a type was answered with, and whether
\* it was run at all.
Queried(type) ==
    \E e \in cache : e.key.type = type /\ e.key.name = env.name
        /\ e.key.static = env.static
        /\ e.key.msvc_syntax = (request.flavor = "msvc")

Reported(type) ==
    (CHOOSE e \in cache : e.key.type = type /\ e.key.name = env.name
        /\ e.key.static = env.static
        /\ e.key.msvc_syntax = (request.flavor = "msvc")).val

\* C23: link_options() of a pkg-config package returns the link flags, then
\* one lib_literal per reported library word, then, if and only if the
\* linker's object format is elf and the package is not static, one rpath
\* option for every -L directory of the lib_dirs query, in reported order;
\* a static package or another object format gets no rpath option.  The
\* package is static exactly when its kind is 'static'.
C23_LinkOptionsShape ==
    /\ env.static <=> env.kind = "static"
    /\ (tool = "PkgConfigPackage" /\ request.method = "link_options") =>
        LET flags == Reported("ldflags")
            libs == Reported("ldlibs")
            nf == Len(flags)
            nl == Len(libs)
            with_rpaths == request.object_format = "elf" /\ ~env.static
        IN /\ Len(result) >= nf + nl
           /\ \A k \in 1..nf :
                 /\ result[k].kind = "str"
                 /\ result[k].text = flags[k].flag \o flags[k].arg
           /\ \A k \in 1..nl :
                 /\ result[nf + k].kind = "lib_literal"
                 /\ result[nf + k].value = libs[k].flag \o libs[k].arg
           /\ ~with_rpaths => Len(result) = nf + nl
           /\ with_rpaths =>
                 /\ Queried("lib_dirs")
                 /\ Len(result) = nf + nl + Len(Reported("lib_dirs"))
                 /\ \A k \in 1..Len(Reported("lib_dirs")) :
                       /\ result[nf + nl + k].kind
                            \in {"rpath_dir", "rpath_dual_dir"}
                       /\ result[nf + nl + k].path =
                            Path("absolute",
                                 <<Reported("lib_dirs")[k].arg>>)

\* C23's case: a shared package linked by an elf linker gets the two rpaths
\* of the two reported directories after its flags and libraries.
C23_TwoRpathsOnElf ==
    /\ tool = "PkgConfigPackage"
    /\ request.method = "link_options"
    /\ request.object_format = "elf"
    /\ env.kind = "shared"
    /\ Queried("lib_dirs")
    /\ Len(Reported("lib_dirs")) = 2
    /\ Len(result) = Len(Reported("ldflags")) + Len(Reported("ldlibs")) + 2
    /\ result[Len(result)].path = Path("absolute", <<"/opt/lib">>)

(***************************************************************************)
(* tools/cc.py: the files a cc linker produces (output_file) and the steps *)
(* it adds once they are built (post_build).                               *)
(***************************************************************************)
\* The cygwin target: import libraries, the genus output_file asks for.
CygwinTarget == [WindowsTarget EXCEPT !.genus = "cygwin", !.family = "posix"]

\* A logical name is a normalized relative path, kept as its components;
\* name + text extends its last component.
NameWith(name, text) ==
    [name EXCEPT ![Len(name)] = name[Len(name)] \o text]

\* The files of file_types that output_file builds; soname, link and
\* import_lib are NoPath where the type has none.
BuiltFile(type, path, format, lang, soname, link, import_lib) ==
    [type |-> type, path |-> path, format |-> format, lang |-> lang,
     soname |-> soname, link |-> link, import_lib |-> import_lib]

\* A _lib_name that would put the suffix before the extension everywhere.
LibNameSuffixFirst(platform, name, prefix, suffix) ==
    Path("builddir",
         SubSeq(name, 1, Len(name) - 1)
            \o <<prefix \o name[Len(name)] \o suffix
                    \o platform.shared_library_ext>>)

\* CcSharedLibraryLinker._lib_name
_lib_name(platform, name, prefix, suffix) ==
    Path("builddir",
         SubSeq(name, 1, Len(name) - 1)
            \o <<prefix \o name[Len(name)] \o platform.shared_library_ext
                    \o suffix>>)

\* A shared-library output_file that would version the library wherever a
\* version is asked for, whatever the platform.
SharedLibraryOutputFileAlwaysVersioned(b, name, version, soversion) ==
    LET platform == b.platform
        fmt == platform.object_format
    IN IF version # ""
       THEN <<BuiltFile("VersionedSharedLibrary",
                        _lib_name(platform, name, "lib", "." \o version),
                        fmt, b.lang,
                        _lib_name(platform, name, "lib", "." \o soversion),
                        _lib_name(platform, name, "lib", ""), NoPath)>>
       ELSE <<BuiltFile("SharedLibrary", _lib_name(platform, name, "lib", ""),
                        fmt, b.lang, NoPath, NoPath, NoPath)>>

\* CcSharedLibraryLinker.output_file; "" stands for a version or soversion
\* the step does not have.  A DllBinary stands for the pair it is returned
\* as: itself and its import library.
SharedLibraryOutputFile(b, name, version, soversion) ==
    LET platform == b.platform
        fmt == platform.object_format
    IN IF version # "" /\ platform.has_versioned_library
       THEN IF platform.genus = "darwin"
            THEN <<BuiltFile("VersionedSharedLibrary",
                     _lib_name(platform, NameWith(name, "." \o version),
                               "lib", ""),
                     fmt, b.lang,
                     _lib_name(platform, NameWith(name, "." \o soversion),
                               "lib", ""),
                     _lib_name(platform, name, "lib", ""), NoPath)>>
            ELSE <<BuiltFile("VersionedSharedLibrary",
                     _lib_name(platform, name, "lib", "." \o version),
                     fmt, b.lang,
                     _lib_name(platform, name, "lib", "." \o soversion),
                     _lib_name(platform, name, "lib", ""), NoPath)>>
       ELSE IF platform.has_import_library
       THEN LET dllprefix == IF platform.genus = "cygwin" THEN "cyg" ELSE ""
                impname == _lib_name(platform, name, "lib", ".a")
            IN <<BuiltFile("DllBinary",
                           _lib_name(platform, name, dllprefix, ""),
                           fmt, b.lang, NoPath, NoPath, impname),
                 BuiltFile("LinkLibrary", impname, fmt, b.lang, NoPath,
                           NoPath, NoPath)>>
       ELSE <<BuiltFile("SharedLibrary", _lib_name(platform, name, "lib", ""),
                        fmt, b.lang, NoPath, NoPath, NoPath)>>

\* CcExecutableLinker.output_file
ExecutableOutputFile(b, name) ==
    <<BuiltFile("Executable",
                Path("builddir", NameWith(name, b.platform.executable_ext)),
                b.platform.object_format, b.lang, NoPath, NoPath, NoPath)>>

\* CopyFile(context, name, file, mode='symlink'): a step making name a
\* symlink to file
CopyFile(name, file) == [name |-> name, file |-> file, mode |-> "symlink"]

\* A post_build that would make the symlinks link first.
SharedLibraryPostBuildLinkFirst(out) ==
    IF Len(out) = 1 /\ out[1].type = "VersionedSharedLibrary"
    THEN [steps |-> <<CopyFile(out[1].link, out[1].soname),
                      CopyFile(out[1].soname, out[1].path)>>,
          public |-> <<out[1].link>>]
    ELSE [steps |-> <<>>, public |-> <<>>]

\* CcSharedLibraryLinker.post_build: the steps it adds to the build and
\* the public output it returns (<<>> for None)
SharedLibraryPostBuild(out) ==
    IF Len(out) = 1 /\ out[1].type = "VersionedSharedLibrary"
    THEN [steps |-> <<CopyFile(out[1].soname, out[1].path),
                      CopyFile(out[1].link, out[1].soname)>>,
          public |-> <<out[1].link>>]
    ELSE [steps |-> <<>>, public |-> <<>>]

\* BuildCommand.post_build
PostBuild(out) == [steps |-> <<>>, public |-> <<>>]

(***************************************************************************)
(* Linking one target, as a state machine: output_file, then post_build.   *)
(***************************************************************************)
TargetPlatforms == {LinuxTarget, DarwinTarget, WindowsTarget, CygwinTarget}

LogicalNames == {<<"foo">>, <<"bar">>, <<"sub", "foo">>}

\* version and soversion of the step; neither, or both
StepVersions ==
    {[version |-> "", soversion |-> ""]}
    \cup {[version |-> v, soversion |-> sv] :
            v \in {"1.2.3", "2.0"}, sv \in {"1", "2"}}

InitOutput ==
    /\ pc = "idle"
    /\ tool = "none"
    /\ env = Builder("c", LinuxTarget, NoLd)
    /\ options = <<>>
    /\ output = <<>>
    /\ mode = "normal"
    /\ result = <<>>
    /\ request = [name |-> <<>>, version |-> "", soversion |-> ""]
    /\ calls = <<>>
    /\ cache = {}

OutputFileCall(t, b, name, step, out) ==
    /\ pc' = "output"
    /\ tool' = t
    /\ env' = b
    /\ request' = [name |-> name, version |-> step.version,
                   soversion |-> step.soversion]
    /\ output' = out
    /\ UNCHANGED <<options, mode, result, calls, cache>>

shared_library_output_file ==
    /\ pc = "idle"
    /\ \E platform \in TargetPlatforms, lang \in {"c", "c++"},
          name \in LogicalNames, step \in StepVersions :
        OutputFileCall("CcSharedLibraryLinker", Builder(lang, platform, NoLd),
            name, step,
            SharedLibraryOutputFile(Builder(lang, platform, NoLd), name,
                                    step.version, step.soversion))

executable_output_file ==
    /\ pc = "idle"
    /\ \E platform \in TargetPlatforms, lang \in {"c", "c++"},
          name \in LogicalNames, step \in StepVersions :
        OutputFileCall("CcExecutableLinker", Builder(lang, platform, NoLd),
            name, step,
            ExecutableOutputFile(Builder(lang, platform, NoLd), name))

PostBuildCall(built) ==
    /\ pc' = "built"
    /\ calls' = built.steps
    /\ result' = built.public
    /\ UNCHANGED <<tool, env, options, output, mode, request, cache>>

shared_library_post_build ==
    /\ pc = "output"
    /\ tool = "CcSharedLibraryLinker"
    /\ PostBuildCall(SharedLibraryPostBuild(output))

executable_post_build ==
    /\ pc = "output"
    /\ tool = "CcExecutableLinker"
    /\ PostBuildCall(PostBuild(output))

NextOutput ==
    \/ shared_library_output_file
    \/ executable_output_file
    \/ shared_library_post_build
    \/ executable_post_build

SpecOutput == InitOutput /\ [][NextOutput]_vars

(***************************************************************************)
(* Properties of the linkers' outputs (checked under SpecOutput)           *)
(***************************************************************************)
\* A file of the given name in the directory of the target's logical name.
Beside(leaf) ==
    Path("builddir", SubSeq(request.name, 1, Len(request.name) - 1) \o <<leaf>>)

Leaf == request.name[Len(request.name)]

SharedLibraryNamed == pc \in {"output", "built"} /\ tool = "CcSharedLibraryLinker"

\* C12: on a platform with versioned libraries, a shared library with a
\* version and a soversion gets the names lib<n>.<version>.dylib,
\* lib<n>.<soversion>.dylib and lib<n>.dylib on darwin, and
\* lib<n>.so.<version>, lib<n>.so.<soversion> and lib<n>.so on elf; the link
\* name holds no version.
C12_VersionedNames ==
    (/\ SharedLibraryNamed
     /\ request.version # ""
     /\ env.platform.has_versioned_library) =>
        /\ Len(output) = 1
        /\ IF env.platform.genus = "darwin"
           THEN /\ output[1].path
                    = Beside("lib" \o Leaf \o "." \o request.version \o ".dylib")
                /\ output[1].soname
                    = Beside("lib" \o Leaf \o "." \o request.soversion \o ".dylib")
                /\ output[1].link = Beside("lib" \o Leaf \o ".dylib")
           ELSE /\ env.platform.object_format = "elf"
                /\ output[1].path
                    = Beside("lib" \o Leaf \o ".so." \o request.version)
                /\ output[1].soname
                    = Beside("lib" \o Leaf \o ".so." \o request.soversion)
                /\ output[1].link = Beside("lib" \o Leaf \o ".so")

\* C12's case: foo, version 1.2.3, soversion 1 on darwin.
C12_FooOnDarwin ==
    /\ SharedLibraryNamed
    /\ env.platform.genus = "darwin"
    /\ request = [name |-> <<"foo">>, version |-> "1.2.3", soversion |-> "1"]
    /\ output[1].path = Path("builddir", <<"libfoo.1.2.3.dylib">>)
    /\ output[1].soname = Path("builddir", <<"libfoo.1.dylib">>)
    /\ output[1].link = Path("builddir", <<"libfoo.dylib">>)

\* C13: the shared-library linker's output is one of three shapes: a
\* versioned library when a version is asked for and the platform has
\* versioned libraries; else, where the platform uses import libraries, a
\* dll (prefix cyg on cygwin, no prefix elsewhere) with its import library;
\* else the single shared library lib<n><ext>.  The executable linker's
\* output is the single path <n><executable ext>.
C13_OutputShapes ==
    /\ SharedLibraryNamed =>
        IF request.version # "" /\ env.platform.has_versioned_library
        THEN /\ Len(output) = 1
             /\ output[1].type = "VersionedSharedLibrary"
             /\ NoPath \notin {output[1].path, output[1].soname, output[1].link}
        ELSE IF env.platform.has_import_library
        THEN /\ Len(output) = 2
             /\ output[1].type = "DllBinary"
             /\ output[1].path
                 = Beside((IF env.platform.genus = "cygwin" THEN "cyg" ELSE "")
                          \o Leaf \o env.platform.shared_library_ext)
             /\ output[2].path = output[1].import_lib
             /\ output[2].path # output[1].path
        ELSE /\ Len(output) = 1
             /\ output[1].type = "SharedLibrary"
             /\ output[1].path
                 = Beside("lib" \o Leaf \o env.platform.shared_library_ext)
    /\ (pc \in {"output", "built"} /\ tool = "CcExecutableLinker") =>
        /\ Len(output) = 1
        /\ output[1].type = "Executable"
        /\ output[1].path = Beside(Leaf \o env.platform.executable_ext)

\* C13's case: a versioned library asked for on cygwin gives the dll
\* cyg<n>.dll and its import library.
C13_CygwinDll ==
    /\ SharedLibraryNamed
    /\ env.platform.genus = "cygwin"
    /\ request.version # ""
    /\ request.name = <<"sub", "foo">>
    /\ output[1].path = Path("builddir", <<"sub", "cygfoo.dll">>)
    /\ output[2].path = Path("builddir", <<"sub", "libfoo.dll.a">>)

\* C14: post_build of the shared-library linker adds, for a versioned
\* library, exactly two symlink steps, soname -> real and then
\* link -> soname, and returns the link file; for any other output it adds
\* no step and returns nothing.
C14_SymlinkChain ==
    (pc = "built" /\ tool = "CcSharedLibraryLinker") =>
        IF output[1].type = "VersionedSharedLibrary"
        THEN /\ calls = <<[name |-> output[1].soname, file |-> output[1].path,
                           mode |-> "symlink"],
                          [name |-> output[1].link, file |-> output[1].soname,
                           mode |-> "symlink"]>>
             /\ result = <<output[1].link>>
        ELSE calls = <<>> /\ result = <<>>

\* C14's case: the steps of a versioned library on elf.
C14_VersionedBuilt ==
    /\ pc = "built"
    /\ tool = "CcSharedLibraryLinker"
    /\ output[1].type = "VersionedSharedLibrary"
    /\ env.platform.object_format = "elf"
    /\ Len(calls) = 2
    /\ calls[1].file = output[1].path
    /\ calls[2].file = calls[1].name

(***************************************************************************)
(* tools/cc.py, tools/msvc.py: naming a library on the link line           *)
(* (_extract_lib_name, _link_lib, lib_flags).                              *)
(***************************************************************************)
\* MsvcLinker.__lib_re / _extract_lib_name: (.*)\.lib
MsvcExtractLibName(l) ==
    IF l.file.ext = ".lib"
    THEN Returned(<<l.file.prefix \o l.file.stem>>)
    ELSE Raised("ValueError",
                "'" \o BaseNameStr(l.file)
                    \o "' is not a valid library name")

\* common_link of CcLinker._link_lib
CcCommonLink(b, l) ==
    LET name == CcExtractLibName(b, l)
    IN IF name.err # "none" THEN name
       ELSE Returned(<<Tok("-l", name.flags[1])>>)

\* A _link_lib that would fall back to the raw path for every library whose
\* name -l cannot take.
CcLinkLibAlwaysFallingBack(b, l, raw_link) ==
    IF l.type \in LibraryTypes /\ CcCommonLink(b, l).err # "none"
    THEN Returned(<<Tok("", LibPathStr(l))>>)
    ELSE CcCommonLink(b, l)

\* CcLinker._link_lib
CcLinkLib(b, l, raw_link) ==
    CASE l.type = "WholeArchive" ->
            IF b.platform.genus = "darwin"
            THEN Returned(<<Tok("-Wl,-force_load", ""),
                            Tok("", LibPathStr(l))>>)
            ELSE Returned(<<Tok("-Wl,--whole-archive", ""),
                            Tok("", LibPathStr(l)),
                            Tok("-Wl,--no-whole-archive", "")>>)
      [] l.type = "Framework" ->
            IF ~b.platform.has_frameworks
            THEN Raised("TypeError",
                        "frameworks not supported on this platform")
            ELSE Returned(<<Tok("-framework", ""),
                            Tok("", l.file.stem)>>)
      [] l.type = "str" -> Returned(<<Tok("-l", l.file.stem)>>)
      [] l.type = "SharedLibrary" ->
            IF raw_link /\ l.creator
            THEN Returned(<<Tok("", LibPathStr(l))>>)
            ELSE CcCommonLink(b, l)
      [] l.type = "StaticLibrary" ->
            IF raw_link THEN Returned(<<Tok("", LibPathStr(l))>>)
            ELSE CcCommonLink(b, l)
      [] OTHER ->
            IF CcCommonLink(b, l).err = "ValueError" /\ raw_link
            THEN Returned(<<Tok("", LibPathStr(l))>>)
            ELSE CcCommonLink(b, l)

\* CcLinker.lib_flags
RECURSIVE CcLibFlagsLoop(_, _, _, _)
CcLibFlagsLoop(b, opts, pkgconf_mode, flags) ==
    IF opts = <<>> THEN Returned(flags)
    ELSE LET i == Head(opts)
             linked == CcLinkLib(b, i.library, ~pkgconf_mode)
         IN CASE i.kind = "lib" ->
                    IF linked.err # "none" THEN linked
                    ELSE CcLibFlagsLoop(b, Tail(opts), pkgconf_mode,
                                        flags \o linked.flags)
              [] i.kind = "lib_literal" ->
                    CcLibFlagsLoop(b, Tail(opts), pkgconf_mode,
                                   Append(flags, Tok("", i.value)))
              [] OTHER -> CcLibFlagsLoop(b, Tail(opts), pkgconf_mode, flags)

CcLibFlagsOf(b, opts, md) == CcLibFlagsLoop(b, opts, md = "pkg-config", <<>>)

(***************************************************************************)
(* Linking against one library, as a state machine: a call of              *)
(* _extract_lib_name, lib_flags or flags for it.                           *)
(***************************************************************************)
\* Library file names: archives, shared objects of each platform, an import
\* library of MinGW, and names no pattern takes.
LibraryFiles ==
    { FileName("lib", "foo", ".a"), FileName("lib", "foo", ".so"),
      FileName("lib", "foo", ".dylib"), FileName("lib", "foo.dll", ".a"),
      FileName("", "foo", ".lib"), FileName("lib", "foo", ".lib"),
      FileName("", "foo", ".so"), FileName("", "foo", ".dll"),
      FileName("lib", "foo", ".dll"),
      FileName("lib", "foo", ".so.1") }

\* The directories of the runtime dependencies of a runtime file.
RuntimeDeps == {<<>>, <<OptLibDir>>, <<OptLibDir, BuildLibDir>>}

\* Library objects: static libraries have no runtime file, shared libraries
\* are their own, a generic Library (an import library) may have one.
LinkedLibraries ==
    {Lib(t, dir, file, creator, runtime, deps) :
        t \in StaticLibraryTypes, dir \in {BuildLibDir, OptLibDir},
        file \in LibraryFiles, creator \in BOOLEAN, runtime \in {FALSE},
        deps \in {<<>>}}
    \cup {Lib(t, dir, file, creator, runtime, deps) :
            t \in {"SharedLibrary"}, dir \in {BuildLibDir, OptLibDir},
            file \in LibraryFiles, creator \in BOOLEAN, runtime \in {TRUE},
            deps \in RuntimeDeps}
    \cup {Lib(t, dir, file, creator, runtime, deps) :
            t \in {"Library"}, dir \in {BuildLibDir, OptLibDir},
            file \in LibraryFiles, creator \in BOOLEAN, runtime \in {FALSE},
            deps \in {<<>>}}
    \cup {Lib(t, dir, file, creator, runtime, deps) :
            t \in {"Library"}, dir \in {BuildLibDir, OptLibDir},
            file \in LibraryFiles, creator \in BOOLEAN, runtime \in {TRUE},
            deps \in RuntimeDeps}

NamedLibraries ==
    {Lib(t, NoPath, FileName("", "foo", ""), FALSE, FALSE, <<>>) :
        t \in {"str", "Framework"}}

\* The raw link-editors discovery may have found: none, GNU ld before and
\* from the fixed version, gold.
LinkEditors ==
    {NoLd, Ld("bfd", BfdFixedVersion - 1), Ld("bfd", BfdFixedVersion),
     Ld("gold", 111)}

LinkBuilders ==
    {Builder("c", platform, ld) :
        platform \in {LinuxTarget, DarwinTarget, WindowsTarget},
        ld \in LinkEditors}

InitLibs ==
    /\ pc = "idle"
    /\ tool = "none"
    /\ env = NoBuilder
    /\ options = <<>>
    /\ output = NoOutput
    /\ mode = "normal"
    /\ result = Returned(<<>>)
    /\ request = NoRequest
    /\ calls = <<>>
    /\ cache = {}

\* CcLinker._extract_lib_name(library)
cc_extract_lib_name ==
    /\ pc = "idle"
    /\ \E b \in LinkBuilders, l \in LinkedLibraries :
        FlagsCall("CcLinker._extract_lib_name", b, <<lib(l)>>, NoOutput,
                  "normal", CcExtractLibName(b, l))

\* MsvcLinker._extract_lib_name(library)
msvc_extract_lib_name ==
    /\ pc = "idle"
    /\ \E l \in LinkedLibraries :
        FlagsCall("MsvcLinker._extract_lib_name",
                  Builder("c", WindowsTarget, NoLd), <<lib(l)>>, NoOutput,
                  "normal", MsvcExtractLibName(l))

\* CcLinker.lib_flags(options, mode)
cc_lib_flags ==
    /\ pc = "idle"
    /\ \E b \in LinkBuilders, l \in LinkedLibraries \cup NamedLibraries,
          rest \in {<<>>, <<lib_literal("-lm")>>}, md \in Modes :
        FlagsCall("CcLinker.lib_flags", b, <<lib(l)>> \o rest, NoOutput, md,
                  CcLibFlagsOf(b, <<lib(l)>> \o rest, md))

\* CcLinker.flags(options, output, mode)
cc_flags ==
    /\ pc = "idle"
    /\ \E b \in LinkBuilders, l \in LinkedLibraries \cup NamedLibraries,
          out \in Outputs, md \in Modes :
        FlagsCall("CcLinker.flags", b, <<lib(l)>>, out, md,
                  CcLinkerFlagsOf(b, <<lib(l)>>, out, md))

NextLibs ==
    \/ cc_extract_lib_name
    \/ msvc_extract_lib_name
    \/ cc_lib_flags
    \/ cc_flags

SpecLibs == InitLibs /\ [][NextLibs]_vars

(***************************************************************************)
(* Properties of linking against a library (checked under SpecLibs)        *)
(***************************************************************************)
\* The library the call was about.
Linked == options[1].library

\* The arguments of the -Wl,-rpath-link, tokens of a flag list.
RpathLinkArgs(flags) ==
    LET hits == SelectSeq(flags, LAMBDA x : x.flag = "-Wl,-rpath-link,")
    IN [k \in 1..Len(hits) |-> hits[k].arg]

\* The -rpath-link the workaround gives: the directories of the runtime
\* dependencies, when there are any.
WorkaroundArgs ==
    IF Linked.deps = <<>> THEN <<>>
    ELSE <<JoinStr([k \in 1..Len(Linked.deps) |-> PathStr(Linked.deps[k])],
                   ":")>>

OldBfd ==
    env.ld.present /\ env.ld.brand = "bfd" /\ env.ld.version < BfdFixedVersion

\* flags() returned for an elf target, a library with a runtime file and an
\* output.
RuntimeLibraryLinked ==
    /\ pc = "done"
    /\ tool = "CcLinker.flags"
    /\ result.err = "none"
    /\ env.platform.object_format = "elf"
    /\ Linked.type \in LibraryTypes
    /\ Linked.runtime
    /\ output # NoOutput

\* C15 (as stated): for an elf target, a library with a runtime file and an
\* output, the cc linker emits the -rpath-link of the runtime dependencies'
\* directories if and only if the raw link-editor is bfd below 2.28; with
\* 2.28, another brand or no raw link-editor it emits none.
C15_RpathLinkIffOldBfd ==
    RuntimeLibraryLinked =>
        RpathLinkArgs(result.flags) = IF OldBfd THEN WorkaroundArgs ELSE <<>>

\* C15 (amended): the same, for flags() called in a mode other than
\* 'pkg-config'; in 'pkg-config' mode no -rpath-link is emitted, whatever
\* the link-editor.
C15_RpathLinkIffOldBfdNormalMode ==
    RuntimeLibraryLinked =>
        RpathLinkArgs(result.flags)
            = IF OldBfd /\ mode # "pkg-config" THEN WorkaroundArgs ELSE <<>>

\* C15's case: bfd 2.27 and a runtime file with two runtime dependencies.
C15_Bfd227 ==
    /\ RuntimeLibraryLinked
    /\ env.ld = Ld("bfd", 227)
    /\ mode = "normal"
    /\ Len(Linked.deps) = 2
    /\ RpathLinkArgs(result.flags) = <<"/opt/lib:lib">>

\* Logical library names.
LibNames == {"foo", "foo.dll", "libfoo"}

InvalidLibraryName ==
    Raised("ValueError",
           "'" \o BaseNameStr(Linked.file) \o "' is not a valid library name")

\* The names n the cc patterns of the builder recover from the file name.
CcNamesOf(b, basename) ==
    {n \in LibNames :
        \/ basename = "lib" \o n \o ".a"
        \/ /\ ~b.platform.has_import_library
           /\ basename = "lib" \o n \o b.platform.shared_library_ext}

MsvcNamesOf(basename) == {n \in LibNames : basename = n \o ".lib"}

\* C17: _extract_lib_name of the cc linker returns n for a file named
\* lib<n>.a, or lib<n><shared ext> on a platform without import libraries,
\* and that of the msvc linker returns n for <n>.lib; for a base name of no
\* such form it raises "'<basename>' is not a valid library name".
C17_LibNameRoundTrip ==
    /\ pc = "done" /\ tool = "CcLinker._extract_lib_name" =>
        LET names == CcNamesOf(env, BaseNameStr(Linked.file))
        IN IF names = {} THEN result = InvalidLibraryName
           ELSE \A n \in names : result = Returned(<<n>>)
    /\ pc = "done" /\ tool = "MsvcLinker._extract_lib_name" =>
        LET names == MsvcNamesOf(BaseNameStr(Linked.file))
        IN IF names = {} THEN result = InvalidLibraryName
           ELSE \A n \in names : result = Returned(<<n>>)

\* The cc linker of a Linux target recovered foo from libfoo.so.
C17_FooFromLibfooSo ==
    /\ pc = "done"
    /\ tool = "CcLinker._extract_lib_name"
    /\ env.platform = LinuxTarget
    /\ BaseNameStr(Linked.file) = "libfoo.so"
    /\ result = Returned(<<"foo">>)

\* lib_flags(), or flags() with the output it builds rpaths from, finished
\* for a library object whose file name does not match the linker's pattern.
UnnamableLinked ==
    /\ pc = "done"
    /\ tool \in {"CcLinker.lib_flags", "CcLinker.flags"}
    /\ tool = "CcLinker.flags" => output # NoOutput
    /\ Linked.type \in {"Library", "SharedLibrary", "StaticLibrary"}
    /\ ~CcLibNameMatches(env, Linked.file)

\* The flags have a -L.
HasLibDir(flags) == \E k \in 1..Len(flags) : flags[k].flag = "-L"

\* The call did not fail, passed the raw path of the library as its link
\* argument and added no -L.
RawPathFallback ==
    /\ result.err = "none"
    /\ tool = "CcLinker.lib_flags" => result.flags[1] = Tok("", LibPathStr(Linked))
    /\ tool = "CcLinker.flags" => ~HasLibDir(result.flags)

\* _link_lib and _lib_dir pass this library raw when the call links raw:
\* a static library, a shared library the build created, and a generic
\* Library.
PassedRaw ==
    \/ Linked.type \in {"Library", "StaticLibrary"}
    \/ Linked.type = "SharedLibrary" /\ Linked.creator

install_name_change(old, new) ==
    [Opt("install_name_change") EXCEPT !.text = old, !.value = new]

\* The install root of a file: executables and dlls go to bindir, libraries
\* to libdir.
InstallRootOf(type) ==
    IF type \in {"Executable", "DllBinary"} THEN "bindir" ELSE "libdir"

\* file_install_path on a path: a file of the build keeps its place under
\* the install root, a file of the source tree its base name, and a file
\* from elsewhere stays where it is.
InstallPath(type, p) ==
    CASE p.root = "builddir" -> Path(InstallRootOf(type), p.suffix)
      [] p.root = "srcdir" ->
            Path(InstallRootOf(type), SubSeq(p.suffix, Len(p.suffix),
                                             Len(p.suffix)))
      [] OTHER -> p

file_install_path(f) == InstallPath(f.type, f.path)

\* file_install_path(lib).parent() for a linked library, kept by its
\* directory
InstalledLibDir(l) ==
    CASE l.dir.root = "builddir" -> Path("libdir", l.dir.suffix)
      [] l.dir.root = "srcdir" -> Path("libdir", <<>>)
      [] OTHER -> l.dir

\* common.darwin_install_name(library, env)
darwin_install_name(f) ==
    IF f.type = "VersionedSharedLibrary" THEN PathStr(f.soname)
    ELSE PathStr(f.path)

\* The accumulator of _installed_rpaths: the result list and the changed
\* flag.
RECURSIVE InstalledRpathsLoop(_, _, _, _)
InstalledRpathsLoop(b, opts, out, acc) ==
    IF opts = <<>> THEN acc
    ELSE LET i == Head(opts)
             l == i.library
             local == CcLocalRpath(b, l, out).rpath[1]
             installed == InstalledLibDir(l)
             next ==
                CASE i.kind = "lib" /\ l.type \in LibraryTypes /\ l.runtime ->
                        [result |-> Append(acc.result, installed),
                         changed |-> acc.changed \/ ~local.ispath
                                        \/ local.path # installed]
                  [] i.kind = "rpath_dir" /\ "installed" \in i.when ->
                        [result |-> Append(acc.result, i.path),
                         changed |-> acc.changed
                                        \/ "uninstalled" \notin i.when]
                  [] OTHER -> acc
         IN InstalledRpathsLoop(b, Tail(opts), out, next)

\* An _installed_rpaths that would give the list whether or not anything
\* changed.
InstalledRpathsUnconditional(b, opts, out) ==
    uniques(InstalledRpathsLoop(b, opts, out,
                                [result |-> <<>>, changed |-> FALSE]).result)

\* CcLinker._installed_rpaths
_installed_rpaths(b, opts, out) ==
    LET acc == InstalledRpathsLoop(b, opts, out,
                                   [result |-> <<>>, changed |-> FALSE])
    IN IF acc.changed THEN uniques(acc.result) ELSE <<>>

\* A post-install step: the tool called, the file it is called on, and
\* its arguments; argv is the command line of install_name_tool.
InstallStep(t, file, rpath, id, changes, argv) ==
    [tool |-> t, file |-> file, rpath |-> rpath, id |-> id,
     changes |-> changes, argv |-> argv]

NoStep == InstallStep("none", NoPath, <<>>, NoPath, <<>>, <<>>)

\* env.tool('patchelf')(path, rpath)
Patchelf(file, rpath) ==
    InstallStep("patchelf", file, rpath, NoPath, <<>>, <<>>)

\* -change old new, for every pair
ChangeArgs(changes) ==
    [k \in 1..(3 * Len(changes)) |->
        LET c == changes[((k - 1) \div 3) + 1]
        IN CASE (k - 1) % 3 = 0 -> "-change"
             [] (k - 1) % 3 = 1 -> c[1]
             [] OTHER -> c[2]]

\* env.tool('install_name_tool')(path, id=..., changes=...): None when
\* there is nothing to rewrite
InstallNameTool(file, id, changes) ==
    IF id = NoPath /\ changes = <<>> THEN NoStep
    ELSE InstallStep("install_name_tool", file, <<>>, id, changes,
            <<"install_name_tool">>
            \o (IF id # NoPath THEN <<"-id", PathStr(id)>> ELSE <<>>)
            \o ChangeArgs(changes)
            \o <<PathStr(file)>>)

\* The (old, new) pairs of post_install on mach-o
InstallNameChanges(opts, runtime_deps) ==
    LET change_opts ==
            SelectSeq(opts, LAMBDA i : i.kind = "install_name_change")
    IN [k \in 1..Len(change_opts) |->
            <<change_opts[k].text, change_opts[k].value>>]
       \o [k \in 1..Len(runtime_deps) |->
            <<darwin_install_name(runtime_deps[k]),
              PathStr(file_install_path(runtime_deps[k]))>>]

\* A post_install that would give executables an id too.
PostInstallIdAlways(b, _is_library, opts, out) ==
    LET file == file_install_path(out.file)
    IN CASE b.platform.object_format = "elf" ->
                Patchelf(file, _installed_rpaths(b, opts,
                                        Output(out.file.path, NoPath)))
         [] b.platform.object_format = "mach-o" ->
                InstallNameTool(file, file,
                                InstallNameChanges(opts, out.runtime_deps))
         [] OTHER -> NoStep

\* CcLinker.post_install
PostInstall(b, _is_library, opts, out) ==
    LET file == file_install_path(out.file)
    IN CASE b.platform.object_format = "elf" ->
                Patchelf(file, _installed_rpaths(b, opts,
                                        Output(out.file.path, NoPath)))
         [] b.platform.object_format = "mach-o" ->
                InstallNameTool(file,
                                IF _is_library THEN file ELSE NoPath,
                                InstallNameChanges(opts, out.runtime_deps))
         [] OTHER -> NoStep

(***************************************************************************)
(* Installing one linked target, as a state machine.                       *)
(***************************************************************************)
MaxInstallOpts == 2

\* The runtime dependencies of the output: shared libraries of the build
\* and of the system, plain and versioned.
RuntimeDepFiles ==
    { BuiltFile("SharedLibrary", Path("builddir", <<"lib", "libdep.dylib">>),
                "mach-o", "c", NoPath, NoPath, NoPath),
      BuiltFile("VersionedSharedLibrary",
                Path("builddir", <<"lib", "libver.1.2.3.dylib">>),
                "mach-o", "c", Path("builddir", <<"lib", "libver.1.dylib">>),
                Path("builddir", <<"lib", "libver.dylib">>), NoPath) }

InstallOptionPool ==
    { install_name_change("old.dylib", "/new.dylib"),
      lib(Lib("SharedLibrary", BuildLibDir, FileName("lib", "foo", ".so"),
              TRUE, TRUE, <<>>)),
      lib(Lib("SharedLibrary", OptLibDir, FileName("lib", "bar", ".so"),
              FALSE, TRUE, <<>>)),
      lib(Lib("StaticLibrary", BuildLibDir, FileName("lib", "baz", ".a"),
              TRUE, FALSE, <<>>)),
      rpath_dir(OptLibDir, RpathAlways),
      rpath_dir(Path("libdir", <<>>), {"installed"}),
      rpath_dir(BuildLibDir, {"uninstalled"}),
      literal("-s") }

InstallOutputs(type, p) ==
    {[file |-> BuiltFile(type, p, "", "c", NoPath, NoPath, NoPath),
      runtime_deps |-> deps] : deps \in SeqsUpTo(RuntimeDepFiles, 2)}

InitInstall ==
    /\ pc = "linked"
    /\ tool = "none"
    /\ env = Builder("c", LinuxTarget, NoLd)
    /\ options = <<>>
    /\ output = [file |-> BuiltFile("none", NoPath, "", "c", NoPath, NoPath,
                                    NoPath),
                 runtime_deps |-> <<>>]
    /\ mode = "normal"
    /\ result = NoStep
    /\ request = NoRequest
    /\ calls = <<>>
    /\ cache = {}

PostInstallCall(t, b, _is_library, opts, out) ==
    /\ pc' = "installed"
    /\ tool' = t
    /\ env' = b
    /\ options' = opts
    /\ output' = out
    /\ result' = PostInstall(b, _is_library, opts, out)
    /\ UNCHANGED <<mode, request, calls, cache>>

\* CcExecutableLinker.post_install(options, output, step)
executable_post_install ==
    /\ pc = "linked"
    /\ \E platform \in {LinuxTarget, DarwinTarget, WindowsTarget},
          opts \in SeqsUpTo(InstallOptionPool, MaxInstallOpts),
          out \in InstallOutputs("Executable",
                                 Path("builddir", <<"bin", "prog">>)) :
        PostInstallCall("CcExecutableLinker", Builder("c", platform, NoLd),
                        FALSE, opts, out)

\* CcSharedLibraryLinker.post_install(options, output, step)
shared_library_post_install ==
    /\ pc = "linked"
    /\ \E platform \in {LinuxTarget, DarwinTarget, WindowsTarget},
          opts \in SeqsUpTo(InstallOptionPool, MaxInstallOpts),
          out \in InstallOutputs("SharedLibrary",
                                 Path("builddir", <<"lib", "libout.so">>)) :
        PostInstallCall("CcSharedLibraryLinker", Builder("c", platform, NoLd),
                        TRUE, opts, out)

NextInstall ==
    \/ executable_post_install
    \/ shared_library_post_install

SpecInstall == InitInstall /\ [][NextInstall]_vars

(***************************************************************************)
(* Properties of post_install (checked under SpecInstall)                  *)
(***************************************************************************)
Installed == file_install_path(output.file)

\* The directories the installed target may look in: those the linked
\* runtime libraries are installed to and those of the rpath_dir options
\* that apply once installed.
InstalledRpathDirs ==
    {InstalledLibDir(options[k].library) :
        k \in {j \in 1..Len(options) :
                  /\ options[j].kind = "lib"
                  /\ options[j].library.runtime}}
    \cup {options[k].path :
            k \in {j \in 1..Len(options) :
                      /\ options[j].kind = "rpath_dir"
                      /\ "installed" \in options[j].when}}

\* The positions of a word in a command line.
Positions(argv, word) == {k \in 1..Len(argv) : argv[k] = word}

\* C16: post_install of a cc linker returns no step for an object format
\* other than elf and mach-o.  On elf it is patchelf on the installed path
\* with the installed rpath list.  On mach-o it is install_name_tool on the
\* installed path; the id is the installed path for a library linker and
\* absent for an executable; the changes are those of the
\* install_name_change options, then one (install name, installed path)
\* pair per runtime dependency of the output; the command line has -id
\* before every -change and the path last, and there is no command when
\* there is neither an id nor a change.
C16_PostInstallSteps ==
    pc = "installed" =>
        CASE env.platform.object_format = "elf" ->
                /\ result.tool = "patchelf"
                /\ result.file = Installed
                /\ \A k \in 1..Len(result.rpath) :
                        result.rpath[k] \in InstalledRpathDirs
                /\ \A j, k \in 1..Len(result.rpath) :
                        result.rpath[j] = result.rpath[k] => j = k
          [] env.platform.object_format = "mach-o" ->
                LET explicit ==
                        SelectSeq(options,
                                  LAMBDA i : i.kind = "install_name_change")
                    deps == output.runtime_deps
                    is_library == tool = "CcSharedLibraryLinker"
                IN IF ~is_library /\ explicit = <<>> /\ deps = <<>>
                   THEN result = NoStep
                   ELSE /\ result.tool = "install_name_tool"
                        /\ result.file = Installed
                        /\ result.id = IF is_library THEN Installed ELSE NoPath
                        /\ Len(result.changes) = Len(explicit) + Len(deps)
                        /\ \A k \in 1..Len(explicit) :
                                result.changes[k]
                                    = <<explicit[k].text, explicit[k].value>>
                        /\ \A k \in 1..Len(deps) :
                                result.changes[Len(explicit) + k]
                                    = <<darwin_install_name(deps[k]),
                                        PathStr(file_install_path(deps[k]))>>
                        /\ result.argv[Len(result.argv)] = PathStr(Installed)
                        /\ Positions(result.argv, "-id")
                                = IF is_library THEN {2} ELSE {}
                        /\ Cardinality(Positions(result.argv, "-change"))
                                = Len(result.changes)
                        /\ \A k \in Positions(result.argv, "-change") :
                                /\ k > (IF is_library THEN 3 ELSE 1)
                                /\ k + 2 < Len(result.argv)
          [] OTHER -> result = NoStep

\* C16's case: a library on mach-o with an explicit change and a versioned
\* runtime dependency.
C16_MachOLibraryRewritten ==
    /\ pc = "installed"
    /\ tool = "CcSharedLibraryLinker"
    /\ env.platform.object_format = "mach-o"
    /\ result.argv = <<"install_name_tool", "-id", "$(libdir)/lib/libout.so",
                       "-change", "old.dylib", "/new.dylib",
                       "-change", "lib/libver.1.dylib",
                       "$(libdir)/lib/libver.1.2.3.dylib",
                       "$(libdir)/lib/libout.so">>

(***************************************************************************)
(* Identification of a cc-family compiler, as a state machine: a call of   *)
(* _parse_brand on the banner of the version probe, or of _gcc_arch_flags. *)
(***************************************************************************)
AllArches == Arches \cup {"arm"}

BrandRequest(lang, version_output, arch, native_arch) ==
    [lang |-> lang, version_output |-> version_output, arch |-> arch,
     native_arch |-> native_arch]

InitBrand ==
    /\ pc = "idle"
    /\ tool = "none"
    /\ env = NoToolchain
    /\ options = <<>>
    /\ output = NoOutput
    /\ mode = "normal"
    /\ result = Ok(Parsed("", "", <<>>), <<>>)
    /\ request = BrandRequest("", "", "", "")
    /\ calls = <<>>
    /\ cache = {}

BrandCall(t, w, req, out) ==
    /\ pc' = "done"
    /\ tool' = t
    /\ env' = w
    /\ request' = req
    /\ result' = out
    /\ calls' = out.calls
    /\ UNCHANGED <<options, output, mode, cache>>

\* CcBuilder._parse_brand(env, command, version_output)
cc_parse_brand ==
    /\ pc = "idle"
    /\ \E version_output \in CcBanners, is_cross \in BOOLEAN,
          arch \in AllArches,
          dump \in Errors \cup {TripletOf(n) : n \in AllArches} :
        LET w == Toolchain(1, Probes(version_output, "CalledProcessError",
                                     "CalledProcessError", dump,
                                     "CalledProcessError"), is_cross, arch)
        IN BrandCall("CcBuilder._parse_brand", w,
                     BrandRequest("c", version_output, arch, ""),
                     CcParseBrand(w, version_output))

\* CcBuilder._gcc_arch_flags(arch, native_arch)
gcc_arch_flags ==
    /\ pc = "idle"
    /\ \E arch \in AllArches, native_arch \in AllArches :
        BrandCall("CcBuilder._gcc_arch_flags", NoToolchain,
                  BrandRequest("c", "", arch, native_arch),
                  Ok(Parsed("", "", _gcc_arch_flags(arch, native_arch)), <<>>))

\* BuildCommand.brand and .version: those of the command's builder
BuildCommand(name, builder) ==
    [command |-> name, brand |-> builder.brand, version |-> builder.version]

\* JvmBuilder(env, langinfo, command, version_output): the brand and
\* version of the builder, and its compiler and linkers (kept in cache)
jvm_builder ==
    /\ pc = "idle"
    /\ \E lang \in JvmLangs, version_output \in JvmBanners,
          run \in Errors \cup RuntimeBanners :
        LET w == Toolchain(1, Probes("CalledProcessError",
                                     "CalledProcessError", version_output,
                                     "CalledProcessError", run),
                           FALSE, "x86_64")
            parsed == JvmParseBrand(w, lang, version_output)
        IN /\ pc' = "done"
           /\ tool' = "JvmBuilder"
           /\ env' = w
           /\ request' = BrandRequest(lang, version_output, "", "")
           /\ result' = parsed
           /\ calls' = parsed.calls
           /\ cache' = {BuildCommand(name, parsed.val) :
                            name \in {"compiler", "linker('executable')",
                                      "linker('shared_library')"}}
           /\ UNCHANGED <<options, output, mode>>

NextBrand ==
    \/ cc_parse_brand
    \/ gcc_arch_flags
    \/ jvm_builder

SpecBrand == InitBrand /\ [][NextBrand]_vars

(***************************************************************************)
(* Properties of cc-family identification (checked under SpecBrand)        *)
(***************************************************************************)
BrandParsed == pc = "done" /\ tool = "CcBuilder._parse_brand"

\* C19: every banner is classified: one naming the Free Software
\* Foundation is gcc with the version parsed from it, even if it names
\* clang too; otherwise one naming clang is clang with its version;
\* otherwise the brand is unknown, with no version and no extra flags.
\* When not cross-compiling the target flags are empty for every brand and
\* no subprocess is run; when cross-compiling, clang gets exactly
\* -target <triplet>.
C19_BrandClassification ==
    BrandParsed =>
        LET v == request.version_output
        IN /\ result.err = "none"
           /\ v = GccBanner =>
                result.val.brand = "gcc" /\ result.val.version = "5.4.0"
           /\ v = ClangFsfBanner =>
                result.val.brand = "gcc" /\ result.val.version = "9.1.0"
           /\ v = ClangBanner =>
                result.val.brand = "clang" /\ result.val.version = "3.8.0"
           /\ v \in {TccBanner, ""} =>
                result.val = Parsed("unknown", "", <<>>)
           /\ ~env.is_cross =>
                result.val.target_flags = <<>> /\ calls = <<>>
           /\ env.is_cross /\ v = ClangBanner =>
                /\ result.val.target_flags
                    = <<"-target", TripletOf(request.arch)>>
                /\ calls = <<>>

ArchFlagsComputed == pc = "done" /\ tool = "CcBuilder._gcc_arch_flags"

\* C20: the flags are -m64 for target x86_64 with a native i?86 compiler,
\* -m32 for a target i?86 with a native x86_64 compiler, and none for every
\* other pair: equal arches, two i?86 arches, and any pair with an arch
\* outside the x86 family.
C20_BridgingOnlyWithinX86 ==
    ArchFlagsComputed =>
        result.val.target_flags
            = IF request.arch = "x86_64" /\ IsI86(request.native_arch)
              THEN <<"-m64">>
              ELSE IF IsI86(request.arch) /\ request.native_arch = "x86_64"
              THEN <<"-m32">>
              ELSE <<>>

\* C21: the version of a JVM builder is the one parsed from the compiler's
\* version output, for java and scala and whatever the brand comes out as
\* (oracle, openjdk, epfl, unknown, a failing runtime probe); it is null only
\* when that output carries no version; the compiler and the linkers report
\* the brand and version of the builder.
C21_JvmVersionFromCompilerOutput ==
    (pc = "done" /\ tool = "JvmBuilder") =>
        /\ result.err = "none"
        /\ request.version_output = JavacBanner => result.val.version = "1.7.0"
        /\ request.version_output = ScalaEpflBanner =>
                result.val.version = "2.11.6"
        /\ request.version_output = ScalaOtherBanner =>
                result.val.version = "2.12.0"
        /\ request.version_output = NoVersionBanner => result.val.version = ""
        /\ Cardinality(cache) = 3
        /\ \A c \in cache :
                c.brand = result.val.brand /\ c.version = result.val.version

(***************************************************************************)
(* tools/cc.py: the probes that may fail without harm: the discovery of    *)
(* the link-editor (CcBuilder.__init__), sysroot and search_dirs of the    *)
(* linker, search_dirs of the raw link-editor, and the resolver's          *)
(* constructor that uses them.                                             *)
(***************************************************************************)
\* The working directory, which abspath('') names.
Cwd == Path("absolute", <<"build">>)
GccLibDir == Path("absolute", <<"usr", "lib", "gcc">>)
SysrootDir == Path("absolute", <<"opt", "sysroot">>)

\* value.split(os.pathsep): the entries of a path-list variable; the empty
\* text has the one entry ''.
SplitPathList(value) ==
    CASE value = "" -> <<"">>
      [] value = "/opt/lib" -> <<"/opt/lib">>
      [] value = "/opt/lib:/usr/lib" -> <<"/opt/lib", "/usr/lib">>
      [] value = "/usr/lib/gcc:/usr/lib" -> <<"/usr/lib/gcc", "/usr/lib">>
      [] value = "/opt/include" -> <<"/opt/include">>

\* path.abspath
abspath(text) ==
    CASE text = "" -> Cwd
      [] text = "/opt/lib" -> OptLibDir
      [] text = "/usr/lib" -> HostLibDirs[3]
      [] text = "/usr/lib/gcc" -> GccLibDir
      [] text = "/opt/include" -> Path("absolute", <<"opt", "include">>)

AbsPaths(entries) == [k \in 1..Len(entries) |-> abspath(entries[k])]

\* What -print-search-dirs prints: a libraries line, or none.
SearchDirsOutput == "libraries: =/usr/lib/gcc:/usr/lib"
NoLibrariesOutput == "install: /usr/lib/gcc/"

\* What the link-editor discovery probe prints on stderr.
LdLine == "/usr/bin/ld --version"
Collect2Line == "collect2 --version"
Collect2ThenLdLines == "collect2 --version; /usr/bin/ld --version"

\* What ld --verbose prints: SEARCH_DIR("/dir1") and SEARCH_DIR("=/dir2")
LdVerboseOutput == "SEARCH_DIR(/dir1) SEARCH_DIR(=/dir2)"

\* The environment of a probe: the target's family, the compiler's brand,
\* how each probe ends, LIBRARY_PATH and CPATH, and whether discovery found
\* a raw link-editor.
ProbeEnv(family, brand, probes, library_path, cpath, raw) ==
    [which |-> 1, family |-> family, brand |-> brand, probes |-> probes,
     LIBRARY_PATH |-> library_path, CPATH |-> cpath, raw |-> raw]

LinkerProbes(discovery, sysroot, dirs, verbose) ==
    [p \in {"-v -Wl,--version", "-print-sysroot", "-print-search-dirs",
            "--verbose"}
        |-> CASE p = "-v -Wl,--version" -> discovery
              [] p = "-print-sysroot" -> sysroot
              [] p = "-print-search-dirs" -> dirs
              [] OTHER -> verbose]

\* What a probe call gives: a text, a list of directories, or the names of
\* the builder's linkers.
ProbeVal(text, dirs, linkers) ==
    [text |-> text, dirs |-> dirs, linkers |-> linkers]

\* The loop of CcBuilder.__init__ over the lines of the discovery probe:
\* the command of the last line with --version, ending at the first that
\* is not collect2; "" for None
DiscoveredLd(stderr) ==
    CASE stderr = LdLine -> "/usr/bin/ld"
      [] stderr = Collect2Line -> "collect2"
      [] stderr = Collect2ThenLdLines -> "/usr/bin/ld"
      [] OTHER -> ""

\* A discovery that would let the failure of its probe through.
CcBuilderLinkersUnguarded(w) ==
    LET probe == Execute(w, "-v -Wl,--version")
    IN IF probe.err # "none" THEN probe
       ELSE Ok(ProbeVal(DiscoveredLd(probe.val), <<>>,
                        {"executable", "shared_library", "static_library"}
                        \cup (IF DiscoveredLd(probe.val) # "" THEN {"raw"}
                              ELSE {})),
               probe.calls)

\* CcBuilder.__init__: the discovery of the link-editor and the linkers
\* the builder gets
CcBuilderLinkers(w) ==
    LET probe == Execute(w, "-v -Wl,--version")
        ld_command == IF probe.err # "none" THEN ""
                      ELSE DiscoveredLd(probe.val)
    IN Ok(ProbeVal(ld_command, <<>>,
                   {"executable", "shared_library", "static_library"}
                   \cup (IF ld_command # "" THEN {"raw"} ELSE {})),
          probe.calls)

\* CcLinker.sysroot(strict)
CcSysroot(w, strict) ==
    LET probe == Execute(w, "-print-sysroot")
    IN IF probe.err = "none"
       THEN Ok(ProbeVal(probe.val, <<>>, {}), probe.calls)
       ELSE IF strict THEN probe
       ELSE Ok(ProbeVal(IF w.family = "windows" THEN "" ELSE "/", <<>>, {}),
               probe.calls)

\* CcLinker.search_dirs(strict)
CcSearchDirs(w, strict) ==
    LET probe == Execute(w, "-print-search-dirs")
        env_dirs == SplitPathList(w.LIBRARY_PATH)
    IN IF probe.err = "none"
       THEN IF probe.val # SearchDirsOutput
            THEN Err("AttributeError",
                     "'NoneType' object has no attribute 'group'",
                     probe.calls)
            ELSE Ok(ProbeVal("",
                        AbsPaths((IF w.brand = "clang" THEN env_dirs
                                  ELSE <<>>)
                                 \o SplitPathList("/usr/lib/gcc:/usr/lib")),
                        {}),
                    probe.calls)
       ELSE IF strict THEN probe
       ELSE Ok(ProbeVal("", AbsPaths(env_dirs), {}), probe.calls)

\* LdLinker.search_dirs(sysroot, strict): the SEARCH_DIR entries of
\* ld --verbose, one with = placed under the sysroot
LdSearchDirs(w, sysroot, strict) ==
    LET probe == Execute(w, "--verbose")
    IN IF probe.err = "none"
       THEN Ok(ProbeVal("",
                    <<Path("absolute", <<"dir1">>),
                      IF sysroot = "/opt/sysroot"
                      THEN Path("absolute", SysrootDir.suffix \o <<"dir2">>)
                      ELSE Path("absolute", <<"dir2">>)>>, {}),
               probe.calls)
       ELSE IF strict THEN probe
       ELSE Ok(ProbeVal("", <<>>, {}), probe.calls)

\* The directories that exist.
ExistingDirs ==
    {Cwd, OptLibDir, GccLibDir, HostLibDirs[2], HostLibDirs[3],
     HostIncludeDirs[2], Path("absolute", <<"dir1">>)}

Existing(dirs) == SelectSeq(dirs, LAMBDA d : d \in ExistingDirs)

\* The ld_lib_dirs of CcPackageResolver.__init__
ResolverLdLibDirs(w) ==
    LET sysroot == CcSysroot(w, FALSE)
        ld == LdSearchDirs(w, sysroot.val.text, TRUE)
    IN IF ~w.raw
       THEN Ok(ProbeVal("", HostLibDirs, {}), sysroot.calls)
       ELSE IF ld.err # "none"
       THEN Ok(ProbeVal("", HostLibDirs, {}), sysroot.calls \o ld.calls)
       ELSE Ok(ld.val, sysroot.calls \o ld.calls)

\* CcPackageResolver.__init__: text names nothing, dirs are lib_dirs
CcPackageResolverInit(w) ==
    LET cc_lib_dirs == CcSearchDirs(w, FALSE)
        ld_lib_dirs == ResolverLdLibDirs(w)
    IN IF cc_lib_dirs.err # "none" THEN cc_lib_dirs
       ELSE Ok(ProbeVal("",
                        Existing(uniques(cc_lib_dirs.val.dirs
                                         \o ld_lib_dirs.val.dirs
                                         \o HostLibDirs)), {}),
               cc_lib_dirs.calls \o ld_lib_dirs.calls)

(***************************************************************************)
(* The probes as a state machine: one call of one of them.                 *)
(***************************************************************************)
ProbeEnvs ==
    {ProbeEnv(family, brand,
              LinkerProbes(discovery, sysroot, dirs, verbose),
              library_path, "", raw) :
        family \in {"posix", "windows"}, brand \in {"gcc", "clang"},
        discovery \in Errors \cup {"", LdLine, Collect2ThenLdLines},
        sysroot \in {"CalledProcessError", "/", "/opt/sysroot"},
        dirs \in {"FileNotFoundError", SearchDirsOutput, NoLibrariesOutput},
        verbose \in {"CalledProcessError", LdVerboseOutput},
        library_path \in {"", "/opt/lib:/usr/lib"},
        raw \in BOOLEAN}

ProbeRequest(strict) == [strict |-> strict]

InitProbes ==
    /\ pc = "idle"
    /\ tool = "none"
    /\ env = ProbeEnv("posix", "gcc",
                      LinkerProbes("", "/", SearchDirsOutput,
                                   LdVerboseOutput), "", "", FALSE)
    /\ options = <<>>
    /\ output = NoOutput
    /\ mode = "normal"
    /\ result = Ok(ProbeVal("", <<>>, {}), <<>>)
    /\ request = ProbeRequest(FALSE)
    /\ calls = <<>>
    /\ cache = {}

ProbeCall(t, w, strict, out) ==
    /\ pc' = "done"
    /\ tool' = t
    /\ env' = w
    /\ request' = ProbeRequest(strict)
    /\ result' = out
    /\ calls' = out.calls
    /\ UNCHANGED <<options, output, mode, cache>>

\* CcBuilder.__init__ (the linkers)
cc_builder_linkers ==
    /\ pc = "idle"
    /\ \E w \in ProbeEnvs :
        ProbeCall("CcBuilder.__init__", w, FALSE, CcBuilderLinkers(w))

\* CcLinker.sysroot(strict)
cc_sysroot ==
    /\ pc = "idle"
    /\ \E w \in ProbeEnvs, strict \in BOOLEAN :
        ProbeCall("CcLinker.sysroot", w, strict, CcSysroot(w, strict))

\* CcLinker.search_dirs(strict)
cc_search_dirs ==
    /\ pc = "idle"
    /\ \E w \in ProbeEnvs, strict \in BOOLEAN :
        ProbeCall("CcLinker.search_dirs", w, strict, CcSearchDirs(w, strict))

\* LdLinker.search_dirs(sysroot, strict)
ld_search_dirs ==
    /\ pc = "idle"
    /\ \E w \in ProbeEnvs, strict \in BOOLEAN :
        ProbeCall("LdLinker.search_dirs", w, strict,
                  LdSearchDirs(w, "/", strict))

\* CcPackageResolver(builder, env, command, ldflags)
cc_package_resolver ==
    /\ pc = "idle"
    /\ \E w \in ProbeEnvs :
        ProbeCall("CcPackageResolver.__init__", w, FALSE,
                  CcPackageResolverInit(w))

NextProbes ==
    \/ cc_builder_linkers
    \/ cc_sysroot
    \/ cc_search_dirs
    \/ ld_search_dirs
    \/ cc_package_resolver

SpecProbes == InitProbes /\ [][NextProbes]_vars

\* The probe of the call that has been made failed.
ProbeFailed(name) == pc = "done" /\ env.probes[name] \in Errors

\* C22: a probe that fails with a subprocess or tool-missing error never
\* aborts the construction of the builder or of the resolver and gives the
\* default instead: failing link-editor discovery leaves the builder without
\* a raw linker; a failing sysroot query that is not strict gives '/' ('' for
\* a target of the windows family); a failing search-directory query that is
\* not strict gives the directories of LIBRARY_PATH (no directory for the
\* raw link-editor); without a raw linker the resolver takes the host
\* platform's library directories; a strict query raises the error again.
C22_ProbeFailureDegrades ==
    /\ (tool = "CcBuilder.__init__" /\ ProbeFailed("-v -Wl,--version")) =>
            /\ result.err = "none"
            /\ "raw" \notin result.val.linkers
    /\ (tool = "CcLinker.sysroot" /\ ProbeFailed("-print-sysroot")) =>
            IF request.strict
            THEN result.err = env.probes["-print-sysroot"]
            ELSE /\ result.err = "none"
                 /\ result.val.text =
                        (IF env.family = "windows" THEN "" ELSE "/")
    /\ (tool = "CcLinker.search_dirs" /\ ProbeFailed("-print-search-dirs")) =>
            IF request.strict
            THEN result.err = env.probes["-print-search-dirs"]
            ELSE /\ result.err = "none"
                 /\ result.val.dirs =
                        AbsPaths(SplitPathList(env.LIBRARY_PATH))
    /\ (tool = "LdLinker.search_dirs" /\ ProbeFailed("--verbose")) =>
            IF request.strict
            THEN result.err = env.probes["--verbose"]
            ELSE result.err = "none" /\ result.val.dirs = <<>>
    /\ (tool = "CcPackageResolver.__init__"
            /\ env.probes["-print-search-dirs"] # NoLibrariesOutput) =>
            /\ result.err = "none"
            /\ (~env.raw \/ ProbeFailed("--verbose")) =>
                    result.val.dirs =
                        Existing(uniques(
                            CcSearchDirs(env, FALSE).val.dirs \o HostLibDirs))

\* The resolver has been constructed for a builder without a raw linker
\* while the search-directory query of its linker failed.
C22_ResolverWithoutRawLinker ==
    /\ pc = "done"
    /\ tool = "CcPackageResolver.__init__"
    /\ ~env.raw
    /\ env.probes["-print-search-dirs"] \in Errors
    /\ env.probes["-print-sysroot"] \in Errors
    /\ env.LIBRARY_PATH = "/opt/lib:/usr/lib"
    /\ result.err = "none"
    /\ result.val.dirs = <<OptLibDir, HostLibDirs[3], HostLibDirs[2]>>

(***************************************************************************)
(* Properties of the path search (checked under SpecResolve)               *)
(***************************************************************************)
\* The call made a path-style resolution with a version callback.
PathStyleWithCallback ==
    /\ ResolverCalled
    /\ request.get_version # "none"
    /\ ReportedUsage.type = "path" \/ FellBack

\* The positions of the callback among the calls made.
GetVersionCalls == {k \in 1..Len(calls) : calls[k] = "get_version"}

\* The include directories found for the headers the usage lists.
FoundHeaderDirs ==
    FindHeaders(env, ReportedUsage.headers, Ok(<<>>, <<>>)).val

\* C24: path-style resolution with a version callback calls it once, after
\* the headers (and libraries) have been located, with the include
\* directories found and the requested constraint; a version that does not
\* satisfy the constraint, or a header without a version, ends in
\* PackageVersionError and no package; otherwise the package carries the
\* version read.  A header or library that is not found ends the resolution
\* before the callback.
C24_VersionCallback ==
    PathStyleWithCallback =>
        IF result.err = "PackageResolutionError"
        THEN GetVersionCalls = {}
        ELSE /\ GetVersionCalls = {Len(calls)}
             /\ IF /\ FoundHeaderDirs # <<>>
                   /\ env.boost_version # NoVersion
                   /\ Satisfies(env.boost_version, request.version)
                THEN /\ result.err = "none"
                     /\ result.package.type = "CommonPackage"
                     /\ result.package.version = env.boost_version
                ELSE /\ result.err = "PackageVersionError"
                     /\ result.package = NoPackage

\* C24's case: the header was found and holds a version that is too old.
C24_BoostTooOld ==
    /\ PathStyleWithCallback
    /\ FoundHeaderDirs # <<>>
    /\ env.boost_version # NoVersion
    /\ ~Satisfies(env.boost_version, request.version)
    /\ result.err = "PackageVersionError"
    /\ GetVersionCalls = {Len(calls)}

(***************************************************************************)
(* The resolver's header() and library() as a state machine: one search    *)
(* among the files that exist.                                             *)
(***************************************************************************)
OptIncludeDir == Path("absolute", <<"opt", "include">>)

SearchResolvers ==
    { Resolver("CcPackageResolver", "cc", "c++", LinuxTarget),
      Resolver("CcPackageResolver", "cc", "c++", DarwinTarget),
      Resolver("CcPackageResolver", "cc", "c++", WindowsTarget),
      Resolver("MsvcPackageResolver", "msvc", "c++", WindowsTarget) }

\* The library files that may exist.
LibraryFilePool ==
    {File(HostLibDirs[1], "libfoo.a"), File(HostLibDirs[3], "libfoo.a"),
     File(HostLibDirs[3], "libfoo.so"), File(HostLibDirs[3], "libfoo.dylib"),
     File(HostLibDirs[3], "libfoo.dll.a"), File(HostLibDirs[3], "foo.lib"),
     File(OptLibDir, "libfoo.a"), File(OptLibDir, "libfoo.so")}

HeaderFilePool ==
    {File(HostIncludeDirs[1], "foo.h"), File(HostIncludeDirs[2], "foo.h"),
     File(OptIncludeDir, "foo.h")}

SearchRequest(r, name, kind, search_dirs) ==
    [resolver |-> r, name |-> name, kind |-> kind, search_dirs |-> search_dirs]

InitSearch ==
    /\ pc = "idle"
    /\ tool = "none"
    /\ env = [files |-> {}]
    /\ options = <<>>
    /\ output = NoOutput
    /\ mode = "normal"
    /\ result = Ok(NoLib, <<>>)
    /\ request = SearchRequest(Resolver("CcPackageResolver", "cc", "c++",
                                        LinuxTarget), "", "any", <<>>)
    /\ calls = <<>>
    /\ cache = {}

SearchCall(t, w, req, out) ==
    /\ pc' = "done"
    /\ tool' = t
    /\ env' = w
    /\ request' = req
    /\ result' = out
    /\ calls' = out.calls
    /\ UNCHANGED <<options, output, mode, cache>>

\* resolver.header(name, search_dirs)
header_search ==
    /\ pc = "idle"
    /\ \E r \in SearchResolvers, files \in SUBSET HeaderFilePool,
          search_dirs \in {<<>>, <<OptIncludeDir>>,
                           <<OptIncludeDir, HostIncludeDirs[2]>>} :
        SearchCall("header", [files |-> files],
                   SearchRequest(r, "foo.h", "any", search_dirs),
                   header([files |-> files], "foo.h", search_dirs))

\* resolver.library(name, kind, search_dirs)
library_search ==
    /\ pc = "idle"
    /\ \E r \in SearchResolvers, files \in SUBSET LibraryFilePool,
          kind \in PackageKinds,
          search_dirs \in {<<>>, <<OptLibDir, HostLibDirs[3]>>} :
        SearchCall("library", [files |-> files],
                   SearchRequest(r, "foo", kind, search_dirs),
                   library([files |-> files], r, "foo", kind, search_dirs))

NextSearch ==
    \/ header_search
    \/ library_search

SpecSearch == InitSearch /\ [][NextSearch]_vars

(***************************************************************************)
(* Properties of the searches (checked under SpecSearch)                   *)
(***************************************************************************)
\* The directories a search goes through: the explicit list, or the
\* resolver's own when that is empty.
SearchedDirs ==
    IF request.search_dirs # <<>> THEN request.search_dirs
    ELSE IF tool = "header" THEN ResolverIncludeDirs ELSE ResolverLibDirs

\* The shared and the static file name of a library on the target.
SharedName(platform, name) ==
    "lib" \o name \o platform.shared_library_ext
        \o (IF platform.has_import_library THEN ".a" ELSE "")

StaticName(name) == "lib" \o name \o ".a"

\* The file names the kind admits, the shared one first.
KindNames(platform, name, kind) ==
    (IF kind \in {"any", "shared"} THEN <<SharedName(platform, name)>>
     ELSE <<>>)
    \o (IF kind \in {"any", "static"} THEN <<StaticName(name)>> ELSE <<>>)

\* The file names tried in each directory: for a cc resolver those the kind
\* admits, followed on a target of the windows family by <name>.lib; for
\* the msvc resolver <name>.lib alone, whatever the kind.
TriedNames(r, name, kind) ==
    IF r.family = "msvc" THEN <<name \o ".lib">>
    ELSE KindNames(r.platform, name, kind)
            \o (IF r.platform.family = "windows" THEN <<name \o ".lib">>
                ELSE <<>>)

\* The positions of the directories searched that hold one of the names.
Holding(names) ==
    {d \in 1..Len(SearchedDirs) :
        \E k \in 1..Len(names) : File(SearchedDirs[d], names[k]) \in env.files}

Earliest(positions) == CHOOSE d \in positions : \A e \in positions : d <= e

\* The search returned the file of the earliest directory holding one of
\* the names, and of that directory the first of the names it holds; or
\* the resolution error naming the library when no directory holds one.
FoundAmong(names) ==
    IF Holding(names) = {}
    THEN /\ result.err = "PackageResolutionError"
         /\ result.msg = "unable to find library '" \o request.name \o "'"
    ELSE LET dir == SearchedDirs[Earliest(Holding(names))]
             first == Earliest({k \in 1..Len(names) :
                                    File(dir, names[k]) \in env.files})
         IN /\ result.err = "none"
            /\ result.val.dir = dir
            /\ BaseNameStr(result.val.file) = names[first]

HeaderFound ==
    IF Holding(<<request.name>>) = {}
    THEN /\ result.err = "PackageResolutionError"
         /\ result.msg = "unable to find header '" \o request.name \o "'"
    ELSE /\ result.err = "none"
         /\ result.val = SearchedDirs[Earliest(Holding(<<request.name>>))]

\* C25 as stated: the library search returns the match of the earliest
\* directory holding a name the kind admits (static: lib<n>.a only; shared:
\* the shared name only; any: both, the shared one first); an empty explicit
\* list means the resolver's own directories; without a match the
\* resolution error names the library, or the header for a header search.
C25_KindAdmitsNames ==
    /\ (pc = "done" /\ tool = "library") =>
            FoundAmong(KindNames(request.resolver.platform, request.name,
                                 request.kind))
    /\ (pc = "done" /\ tool = "header") => HeaderFound

\* C25 with the names the resolvers try: a cc resolver also tries <n>.lib,
\* after the names of the kind, on a target of the windows family, and the
\* msvc resolver tries <n>.lib alone whatever the kind.
C25_EarliestDirectoryWins ==
    /\ (pc = "done" /\ tool = "library") =>
            FoundAmong(TriedNames(request.resolver, request.name,
                                  request.kind))
    /\ (pc = "done" /\ tool = "header") => HeaderFound

\* C25's case: with both kinds asked for, the static library of an earlier
\* directory is returned although a later directory holds the shared one.
C25_StaticOfEarlierDirectory ==
    /\ pc = "done"
    /\ tool = "library"
    /\ request.kind = "any"
    /\ request.search_dirs = <<>>
    /\ request.resolver.platform = LinuxTarget
    /\ File(HostLibDirs[3], "libfoo.so") \in env.files
    /\ result.err = "none"
    /\ result.val.dir = HostLibDirs[1]
    /\ result.val.type = "StaticLibrary"

(***************************************************************************)
(* The warning option as a state machine: one call of a compiler's flags() *)
(* on a warning option with some levels.                                   *)
(***************************************************************************)
MaxLevels == 3

\* opts.WarningValue
WarningValue == {"disable", "all", "extra", "error"}

WarningOptions == {warning(levels) : levels \in SeqsUpTo(WarningValue, MaxLevels)}

InitWarnings ==
    /\ pc = "idle"
    /\ tool = "none"
    /\ env = NoBuilder
    /\ options = <<>>
    /\ output = NoOutput
    /\ mode = "normal"
    /\ result = Returned(<<>>)
    /\ request = NoRequest
    /\ calls = <<>>
    /\ cache = {}

\* CcBaseCompiler.flags([warning(...)])
CcCompilerWarning ==
    /\ pc = "idle"
    /\ \E w \in WarningOptions :
        FlagsCall("CcCompiler", NoBuilder, <<w>>, NoOutput, "normal",
                  CcCompilerFlagsOf(<<w>>, NoOutput, "normal"))

\* MsvcBaseCompiler.flags([warning(...)])
MsvcCompilerWarning ==
    /\ pc = "idle"
    /\ \E w \in WarningOptions :
        FlagsCall("MsvcCompiler", NoBuilder, <<w>>, NoOutput, "normal",
                  MsvcCompilerFlagsOf(<<w>>, NoOutput, "normal"))

\* JvmCompiler.flags([warning(...)])
JvmCompilerWarning ==
    /\ pc = "idle"
    /\ \E lang \in JvmLangs, w \in WarningOptions :
        FlagsCall("JvmCompiler", Builder(lang, LinuxTarget, NoLd), <<w>>,
                  NoOutput, "normal",
                  JvmCompilerFlagsOf(lang, <<w>>, NoOutput, "normal"))

NextWarnings ==
    \/ CcCompilerWarning
    \/ MsvcCompilerWarning
    \/ JvmCompilerWarning

SpecWarnings == InitWarnings /\ [][NextWarnings]_vars

\* The flag a level is to become; "" where the JVM language has none.
WarningFlagFor(t, lang, level) ==
    CASE t = "CcCompiler" ->
            IF level = "disable" THEN "-w" ELSE "-W" \o level
      [] t = "MsvcCompiler" ->
            (CASE level = "disable" -> "/w" [] level = "all" -> "/W3"
               [] level = "extra" -> "/W4" [] level = "error" -> "/WX")
      [] t = "JvmCompiler" /\ lang = "java" ->
            (CASE level = "disable" -> "-nowarn" [] level = "error" -> "-Werror"
               [] level = "all" -> "-Xlint:all" [] OTHER -> "")
      [] t = "JvmCompiler" /\ lang = "scala" ->
            (CASE level = "disable" -> "-nowarn"
               [] level = "error" -> "-Xfatal-errors"
               [] level = "all" -> "-Xlint:_" [] OTHER -> "")

\* C26: a warning option becomes one flag per level: cc -w for disable and
\* -W<level> otherwise; msvc /w, /W3, /W4, /WX for disable, all, extra,
\* error; jvm the flag of the language's table (java -nowarn, -Werror,
\* -Xlint:all; scala -nowarn, -Xfatal-errors, -Xlint:_ for disable, error,
\* all), and a level without an entry there raises the unsupported warning
\* level error naming it instead of being left out.
C26_WarningLevels ==
    (pc = "done" /\ Len(options) = 1 /\ options[1].kind = "warning") =>
        LET levels == options[1].levels
            flag(k) == WarningFlagFor(tool, env.lang, levels[k])
            unknown == {k \in 1..Len(levels) : flag(k) = ""}
        IN IF unknown = {}
           THEN /\ result.err = "none"
                /\ Len(result.flags) = Len(levels)
                /\ \A k \in 1..Len(levels) :
                      result.flags[k].flag \o result.flags[k].arg = flag(k)
           ELSE /\ result.err = "ValueError"
                /\ \E k \in unknown :
                      /\ \A m \in unknown : k <= m
                      /\ result.msg = "unsupported warning level " \o levels[k]

\* C26's case: java is asked for the levels all and extra, and extra has no
\* flag there.
C26_JavaExtra ==
    /\ pc = "done"
    /\ tool = "JvmCompiler"
    /\ env.lang = "java"
    /\ options = <<warning(<<"all", "extra">>)>>
    /\ result.err = "ValueError"

(***************************************************************************)
(* The include-dir option as a state machine: one call of the cc           *)
(* compiler's flags() on include-dir options.                              *)
(***************************************************************************)
MaxIncludeDirs == 2

IncludeDirPool ==
    {include_dir(d, system) :
        d \in {SrcIncludeDir, OptIncludeDir, HostIncludeDirs[1],
               HostIncludeDirs[2]},
        system \in BOOLEAN}

InitIncludeDir ==
    /\ pc = "idle"
    /\ tool = "none"
    /\ env = NoBuilder
    /\ options = <<>>
    /\ output = NoOutput
    /\ mode = "normal"
    /\ result = Returned(<<>>)
    /\ request = NoRequest
    /\ calls = <<>>
    /\ cache = {}

\* CcBaseCompiler.flags(options) for include-dir options
CcCompilerIncludeDirs ==
    /\ pc = "idle"
    /\ \E opts \in SeqsUpTo(IncludeDirPool, MaxIncludeDirs), md \in Modes :
        FlagsCall("CcCompiler", NoBuilder, opts, NoOutput, md,
                  CcCompilerFlagsOf(opts, NoOutput, md))

NextIncludeDir == CcCompilerIncludeDirs

SpecIncludeDir == InitIncludeDir /\ [][NextIncludeDir]_vars

\* The host platform's default include directories.
IsDefaultIncludeDir(d) ==
    \/ d = Path("absolute", <<"usr", "local", "include">>)
    \/ d = Path("absolute", <<"usr", "include">>)

\* The tokens the options are to become, in order.
RECURSIVE IncludeTokens(_)
IncludeTokens(opts) ==
    IF opts = <<>> THEN <<>>
    ELSE (IF Head(opts).system /\ ~IsDefaultIncludeDir(Head(opts).path)
          THEN <<"-isystem", PathStr(Head(opts).path)>>
          ELSE <<"-I" \o PathStr(Head(opts).path)>>)
         \o IncludeTokens(Tail(opts))

\* C27: the cc compiler turns an include-dir option into the two tokens
\* -isystem <dir> if and only if the directory is marked system and is not
\* one of the host platform's default include directories, and into the
\* one token -I<dir> in every other case.
C27_IsystemOnlyOffDefaults ==
    (pc = "done" /\ tool = "CcCompiler") =>
        /\ result.err = "none"
        /\ [k \in 1..Len(result.flags) |->
                result.flags[k].flag \o result.flags[k].arg]
           = IncludeTokens(options)

\* C27's case: /usr/include marked system is given with -I, next to a
\* system directory that is given with -isystem.
C27_SystemUsrInclude ==
    /\ pc = "done"
    /\ tool = "CcCompiler"
    /\ options = <<include_dir(HostIncludeDirs[2], TRUE),
                   include_dir(OptIncludeDir, TRUE)>>
    /\ Len(result.flags) = 3
    /\ result.flags[1] = Tok("-I", "/usr/include")
    /\ result.flags[2] = Tok("-isystem", "")

(***************************************************************************)
(* Properties of the usage types (checked under SpecResolve)               *)
(***************************************************************************)
\* The usage query could not be made: mopack is missing or exits non-zero.
UsageUnavailable == ResolverCalled /\ env.mopack.err \in Errors

\* The call's environment with mopack reporting the record r.
Reporting(r) == [env EXCEPT !.mopack = [err |-> "none", usage |-> r]]

\* C28: a reported usage type other than 'pkg-config', 'path' and 'system'
\* ends resolve() with the resolution error naming the type, pkg-config not
\* run and no directory searched; when the usage query cannot be made the
\* usage is of type 'system', and resolution goes through the system
\* strategy as it does when that record is reported: pkg-config is tried
\* first for the package's name.
C28_UsageTypes ==
    /\ (/\ ResolverCalled
        /\ env.mopack.err = "none"
        /\ env.mopack.usage.type \notin {"pkg-config", "path", "system"}) =>
            /\ result.err = "PackageResolutionError"
            /\ result.msg = "unsupported package usage "
                                \o env.mopack.usage.type
            /\ result.package = NoPackage
            /\ calls = <<"mopack usage">>
    /\ UsageUnavailable =>
            /\ ReportedUsage.type = "system"
            /\ Len(calls) >= 2
            /\ calls[1] = "mopack usage"
            /\ calls[2] = PkgConfigAttempt.calls[1]
            /\ result =
                  Resolved(Resolve(
                      Reporting(Usage("system", <<>>, <<>>, <<request.name>>)),
                      TheResolver, request))

\* C28's case: mopack is missing, pkg-config does not know the package and
\* the library named after it is found by the path search.
C28_MopackMissingFallsBack ==
    /\ UsageUnavailable
    /\ env.mopack.err = "FileNotFoundError"
    /\ env.pkg_config.which
    /\ FellBack
    /\ result.err = "none"
    /\ result.package.type = "CommonPackage"
    /\ Len(result.package.link_options) = 1

(***************************************************************************)
(* Properties of the installed rpaths (checked under SpecInstall)          *)
(***************************************************************************)
\* A linked library with a runtime file.
RuntimeLib(i) ==
    i.kind = "lib" /\ i.library.type \in LibraryTypes /\ i.library.runtime

\* The library is installed into another directory than the one its
\* build-time rpath names: it lies in the build or in the source tree.
LibMoves(i) == RuntimeLib(i) /\ i.library.dir.root \in {"builddir", "srcdir"}

\* The rpath_dir applies once installed.
RpathWhenInstalled(i) == i.kind = "rpath_dir" /\ "installed" \in i.when

\* Something changes between build and install.
RpathsChange ==
    \E k \in 1..Len(options) :
        \/ LibMoves(options[k])
        \/ RpathWhenInstalled(options[k])
              /\ "uninstalled" \notin options[k].when

\* The directory an option contributes once installed.
InstalledEntry(i) ==
    IF RuntimeLib(i)
    THEN (CASE i.library.dir.root = "builddir" ->
                    Path("libdir", i.library.dir.suffix)
            [] i.library.dir.root = "srcdir" -> Path("libdir", <<>>)
            [] OTHER -> i.library.dir)
    ELSE i.path

\* The positions of the options that contribute a directory.
Contributing ==
    {k \in 1..Len(options) :
        RuntimeLib(options[k]) \/ RpathWhenInstalled(options[k])}

FirstContributing(dir) ==
    CHOOSE k \in Contributing :
        /\ InstalledEntry(options[k]) = dir
        /\ \A m \in Contributing :
              InstalledEntry(options[m]) = dir => k <= m

\* C29: the rpath list given to patchelf is empty unless something changes
\* between build and install (a linked library is installed elsewhere than
\* its build-time rpath, or an rpath_dir applies when installed but not
\* when uninstalled); when not empty it lists, without duplicates and in
\* the order of the options, the install directories of all linked
\* libraries with a runtime file and all rpath_dir paths that apply when
\* installed, those that did not change included.
C29_InstalledRpaths ==
    (pc = "installed" /\ result.tool = "patchelf") =>
        IF ~RpathsChange THEN result.rpath = <<>>
        ELSE /\ result.rpath # <<>>
             /\ \A j, k \in 1..Len(result.rpath) :
                    result.rpath[j] = result.rpath[k] => j = k
             /\ Range(result.rpath) =
                    {InstalledEntry(options[k]) : k \in Contributing}
             /\ \A j, k \in 1..Len(result.rpath) :
                    j < k => FirstContributing(result.rpath[j])
                                < FirstContributing(result.rpath[k])

\* C29's case: a library of the build is linked with one of /opt/lib; the
\* list has the install directory of the first and, unchanged, /opt/lib.
C29_UnchangedEntryKept ==
    /\ pc = "installed"
    /\ result.tool = "patchelf"
    /\ Len(options) = 2
    /\ LibMoves(options[1])
    /\ RuntimeLib(options[2]) /\ ~LibMoves(options[2])
    /\ result.rpath = <<Path("libdir", <<"lib">>), OptLibDir>>

(***************************************************************************)
(* builtins/install.py: InstallOutputs, the registry of what is installed. *)
(***************************************************************************)
MaxAdds == 3

\* The depth of calls at which the interpreter ends a recursion with
\* RecursionError.
MaxDepth == 4

\* The objects a build script may hand to install(): files of the build
\* and of the source tree, a file from elsewhere, an object that is no
\* file, and a library made of two files.
InstallItems == {"a", "b", "c", "x", "pkg", "dual"}

ItemIsFile(item) == item \in {"a", "b", "c", "x"}

ItemRoot(item) ==
    CASE item \in {"a", "c"} -> "builddir"
      [] item = "b" -> "srcdir"
      [] OTHER -> "absolute"

\* item.all
ItemAll(item) == IF item = "dual" THEN <<"a", "b">> ELSE <<item>>

\* install_deps of every file: no dependency, a chain with a repeated
\* dependency, a dependency from elsewhere, one that is no file, and two
\* files that depend on each other.
NoDeps == [item \in InstallItems |-> <<>>]

InstallDepGraphs ==
    { NoDeps,
      [NoDeps EXCEPT !["a"] = <<"b", "c">>, !["b"] = <<"c">>],
      [NoDeps EXCEPT !["a"] = <<"c", "x">>],
      [NoDeps EXCEPT !["b"] = <<"pkg">>],
      [NoDeps EXCEPT !["a"] = <<"b">>, !["b"] = <<"a">>] }

\* The registry, with the exception the last call ended in.
Registry(err, msg, explicit, implicit) ==
    [err |-> err, msg |-> msg, explicit |-> explicit, implicit |-> implicit]

\* InstallOutputs._add_implicit(item), at the given depth of calls
RECURSIVE _add_implicit(_, _, _, _)
RECURSIVE AddImplicitAll(_, _, _, _)
_add_implicit(install_deps, reg, item, depth) ==
    IF depth > MaxDepth
    THEN [reg EXCEPT !.err = "RecursionError",
                     !.msg = "maximum recursion depth exceeded"]
    ELSE IF ~ItemIsFile(item)
    THEN [reg EXCEPT !.err = "TypeError",
                     !.msg = "expected a file or directory"]
    ELSE IF ItemRoot(item) \notin {"srcdir", "builddir"}
    THEN [reg EXCEPT !.err = "ValueError",
                     !.msg = "external files are not installable"]
    ELSE AddImplicitAll(install_deps,
            IF Contains(reg.implicit, item) THEN reg
            ELSE [reg EXCEPT !.implicit = Append(@, item)],
            install_deps[item], depth + 1)

\* for i in items: self._add_implicit(i)
AddImplicitAll(install_deps, reg, items, depth) ==
    IF items = <<>> \/ reg.err # "none" THEN reg
    ELSE AddImplicitAll(install_deps,
            _add_implicit(install_deps, reg, Head(items), depth),
            Tail(items), depth)

\* InstallOutputs.add(item)
InstallOutputsAdd(install_deps, reg, item) ==
    AddImplicitAll(install_deps,
        Registry("none", "",
                 IF Contains(reg.explicit, item) THEN reg.explicit
                 ELSE Append(reg.explicit, item),
                 reg.implicit),
        ItemAll(item), 1)

InitRegistry ==
    /\ pc = "registry"
    /\ tool = "InstallOutputs"
    /\ env \in InstallDepGraphs
    /\ options = <<>>
    /\ output = NoOutput
    /\ mode = "normal"
    /\ result = Registry("none", "", <<>>, <<>>)
    /\ request = ""
    /\ calls = <<>>
    /\ cache = {}

\* install(item): context.build['install'].add(item)
add ==
    /\ pc = "registry"
    /\ Len(calls) < MaxAdds
    /\ \E item \in InstallItems :
        /\ request' = item
        /\ result' = InstallOutputsAdd(env, result, item)
        /\ calls' = Append(calls, item)
    /\ UNCHANGED <<pc, tool, env, options, output, mode, cache>>

NextRegistry == add

SpecRegistry == InitRegistry /\ [][NextRegistry]_vars

(***************************************************************************)
(* Properties of the registry (checked under SpecRegistry)                 *)
(***************************************************************************)
NoDuplicates(seq) == \A j, k \in 1..Len(seq) : seq[j] = seq[k] => j = k

\* The items reachable from a set through install_deps.
RECURSIVE ReachableFrom(_)
ReachableFrom(items) ==
    LET more == items \cup UNION {Range(env[i]) : i \in items}
    IN IF more = items THEN items ELSE ReachableFrom(more)

\* C30: after any sequence of add() calls, those that raised included,
\* explicit and implicit hold no duplicate, every implicit item is a file of
\* the source or the build directory, and for every explicit item every
\* member of its all and everything reachable from them through
\* install_deps is in implicit; and add() ends by itself for every finite
\* install_deps graph.
C30_RegistryInvariant ==
    /\ NoDuplicates(result.explicit)
    /\ NoDuplicates(result.implicit)
    /\ \A k \in 1..Len(result.implicit) :
          /\ ItemIsFile(result.implicit[k])
          /\ ItemRoot(result.implicit[k]) \in {"srcdir", "builddir"}
    /\ \A k \in 1..Len(result.explicit) :
          ReachableFrom(Range(ItemAll(result.explicit[k])))
              \subseteq Range(result.implicit)
    /\ result.err # "RecursionError"

====
